---- MODULE Spec2Model ----
(***************************************************************************)
(* Redirect tracer of wheregoes: the synchronous Track loop, the streaming *)
(* TrackChannel producer with its consumer, and the Location resolver.     *)
(*                                                                         *)
(* Strings are sequences of one-character strings, so that the prefix test *)
(* of IsUrl, the parsing of net/url and the concatenation of fmt.Sprintf   *)
(* are computed, not assumed.  The latency of a checkpoint is a wall-clock *)
(* measurement that no control decision reads; checkpoints carry Url and   *)
(* Status only.                                                            *)
(***************************************************************************)
EXTENDS Integers, Sequences, FiniteSets, TLC

VARIABLES
    input,              \* the url argument given to Track and to TrackChannel
    world,              \* the fetcher's answers, fixed the first time each is asked for
    track_pc,           \* Track: "loop" | "returned"
    track_url,          \* Track: the local variable url
    track_checkpoints,  \* Track: the local variable checkpoints
    track_visited,      \* Track: the visited set of the trace
    track_log,          \* Track: every call of fetcher.Fetch, in order
    track_ret,          \* Track: the returned (TrackResponse, error)
    tc_pc,              \* TrackChannel goroutine: its position
    tc_url,             \* TrackChannel goroutine: the captured variable url
    tc_res,             \* TrackChannel goroutine: the local variable res
    tc_visited,         \* TrackChannel goroutine: the visited set of the trace
    tc_log,             \* TrackChannel goroutine: every call of fetcher.Fetch
    tc_pending,         \* the value of the send the goroutine is blocked on
    ch_closed,          \* whether close(ch) has run
    recv_pc,            \* the consumer of ch: "receiving" | "done"; the handler of /ws
                        \* also: "read" (in ws.ReadMessage) | "closed"
    received,           \* the events the consumer has received from ch, in order
    entry,              \* who calls the service: "direct" | "cli" | "post" | "ws"
    fetcher,            \* the FetcherClient the service was built with
    ctx_done,           \* whether the context given to the service is cancelled
    reply,              \* what the track command or POST /tracks answered
    ws_msgs,            \* /ws: the messages read from the connection, in order
    ws_frames,          \* /ws: for each message read, the frames written for it
    fn_in,              \* the arguments of a call of transformLocationUrl alone
    fn_out,             \* its result
    http_pc,            \* defaultHttpFetcherClient.Fetch called alone: "idle" | "build" |
                        \* "do" | "returned"
    http_url,           \* the url of the request client.Do is about to send
    http_sent,          \* the requests sent to servers, each with its answer
    http_ret,           \* the (FetcherResponse, error) returned
    allowedOrigins,     \* the package variable allowedOrigins, set by init()
    request_origin,     \* the Origin header of a request to upgrade to a WebSocket
    upgrade_ok,         \* what CheckOrigin returned for it
    set_m,              \* package set: the field m of a Set
    set_ops,            \* package set: the calls of Add and Remove made on it, in order
    is_url              \* what utils.IsUrl returned for input, called alone

vars == <<input, world, track_pc, track_url, track_checkpoints, track_visited,
          track_log, track_ret, tc_pc, tc_url, tc_res, tc_visited, tc_log,
          tc_pending, ch_closed, recv_pc, received, entry, fetcher, ctx_done,
          reply, ws_msgs, ws_frames, fn_in, fn_out,
          http_pc, http_url, http_sent, http_ret,
          allowedOrigins, request_origin, upgrade_ok,
          set_m, set_ops, is_url>>

trackVars == <<track_pc, track_url, track_checkpoints, track_visited,
               track_log, track_ret>>
producerVars == <<tc_pc, tc_url, tc_res, tc_visited, tc_log, tc_pending, ch_closed>>
consumerVars == <<recv_pc, received>>
callerVars == <<input, entry, fetcher, ctx_done>>
replyVars == <<reply, ws_msgs, ws_frames>>
fnVars == <<fn_in, fn_out>>
httpVars == <<http_pc, http_url, http_sent, http_ret>>
originVars == <<allowedOrigins, request_origin, upgrade_ok>>
pkgVars == <<set_m, set_ops, is_url>>
\* what no step of a trace changes
outerVars == <<callerVars, replyVars, fnVars, httpVars, originVars, pkgVars>>

----------------------------------------------------------------------------
(* Strings *)

EmptyString == <<>>

HasPrefix(s, p) == Len(s) >= Len(p) /\ SubSeq(s, 1, Len(p)) = p

Contains(s, c) == \E i \in 1..Len(s) : s[i] = c

\* strings.Index for a one-character needle; 0 when absent
Index(s, c) ==
    IF Contains(s, c) THEN CHOOSE i \in 1..Len(s) : s[i] = c /\ \A j \in 1..(i-1) : s[j] # c
    ELSE 0

\* strings.LastIndex for a one-character needle; 0 when absent
LastIndex(s, c) ==
    IF Contains(s, c) THEN CHOOSE i \in 1..Len(s) : s[i] = c /\ \A j \in (i+1)..Len(s) : s[j] # c
    ELSE 0

\* the part of s before the first c (all of s when c is absent): strings.Cut's first result
CutBefore(s, c) == IF Contains(s, c) THEN SubSeq(s, 1, Index(s, c) - 1) ELSE s

Letters == {"a","b","c","d","e","f","g","h","i","j","k","l","m",
            "n","o","p","q","r","s","t","u","v","w","x","y","z"}
Digits == {"0","1","2","3","4","5","6","7","8","9"}

----------------------------------------------------------------------------
(* utils.IsUrl: the regular expression ^https?:// *)

HttpPrefix == <<"h","t","t","p",":","/","/">>
HttpsPrefix == <<"h","t","t","p","s",":","/","/">>

IsUrl(url) == HasPrefix(url, HttpPrefix) \/ HasPrefix(url, HttpsPrefix)

----------------------------------------------------------------------------
(* net/url.Parse, for strings over letters, digits and  : / ? + - .        *)
(* (no fragment, no userinfo, no bracketed host, no percent escape)        *)

\* getScheme: the index of the colon ending the scheme, 0 for "no scheme",
\* -1 for the error "missing protocol scheme"
RECURSIVE getScheme(_, _)
getScheme(rawURL, i) ==
    IF i > Len(rawURL) THEN 0
    ELSE IF rawURL[i] \in Letters THEN getScheme(rawURL, i + 1)
    ELSE IF rawURL[i] \in Digits \cup {"+", "-", "."}
         THEN IF i = 1 THEN 0 ELSE getScheme(rawURL, i + 1)
    ELSE IF rawURL[i] = ":" THEN IF i = 1 THEN -1 ELSE i
    ELSE 0

\* any text taken for a port
parseHostOk_AnyPort(host) == TRUE

\* validOptionalPort of the text from the last colon of the host on
parseHostOk(host) ==
    LET i == LastIndex(host, ":") IN
    i = 0 \/ \A j \in (i+1)..Len(host) : host[j] \in Digits

ParseError == [ok |-> FALSE, Scheme |-> EmptyString, Host |-> EmptyString]

Parse(rawURL) ==
    LET colon == getScheme(rawURL, 1) IN
    IF colon = -1 THEN ParseError
    ELSE
      LET scheme == IF colon > 0 THEN SubSeq(rawURL, 1, colon - 1) ELSE EmptyString
          afterScheme == IF colon > 0 THEN SubSeq(rawURL, colon + 1, Len(rawURL)) ELSE rawURL
          rest == CutBefore(afterScheme, "?")
      IN
      IF ~HasPrefix(rest, <<"/">>)
      THEN IF scheme # EmptyString
           THEN [ok |-> TRUE, Scheme |-> scheme, Host |-> EmptyString]
           ELSE IF Contains(CutBefore(rest, "/"), ":")
                THEN ParseError
                ELSE [ok |-> TRUE, Scheme |-> EmptyString, Host |-> EmptyString]
      ELSE IF (scheme # EmptyString \/ ~HasPrefix(rest, <<"/","/","/">>))
              /\ HasPrefix(rest, <<"/","/">>)
           THEN LET authority == CutBefore(SubSeq(rest, 3, Len(rest)), "/") IN
                IF parseHostOk(authority)
                THEN [ok |-> TRUE, Scheme |-> scheme, Host |-> authority]
                ELSE ParseError
           ELSE [ok |-> TRUE, Scheme |-> scheme, Host |-> EmptyString]

----------------------------------------------------------------------------
(* defaultTrackerService.transformLocationUrl *)

\* a resolver that takes a previous url without a scheme for unparsable
transformLocationUrl_SchemeRequired(locationUrl, previousUrl) ==
    IF IsUrl(locationUrl) THEN locationUrl
    ELSE LET parsedPreviousUrl == Parse(previousUrl) IN
         IF ~parsedPreviousUrl.ok \/ parsedPreviousUrl.Scheme = EmptyString
         THEN EmptyString
         ELSE parsedPreviousUrl.Scheme \o <<":","/","/">> \o parsedPreviousUrl.Host
              \o locationUrl

transformLocationUrl(locationUrl, previousUrl) ==
    IF IsUrl(locationUrl) THEN locationUrl
    ELSE LET parsedPreviousUrl == Parse(previousUrl) IN
         IF ~parsedPreviousUrl.ok THEN EmptyString
         ELSE parsedPreviousUrl.Scheme \o <<":","/","/">> \o parsedPreviousUrl.Host
              \o locationUrl

----------------------------------------------------------------------------
(* The inputs and the fetcher *)

UrlAX == HttpsPrefix \o <<"a","/","x">>
UrlBY == HttpPrefix \o <<"b",":","8","/","y">>
BadPortUrl == HttpsPrefix \o <<"a",":","x">>
NotUrl == <<"x">>
RelZ == <<"/","z">>

\* Track and TrackChannel take any string; the scheme check is their callers'.
\* BadPortUrl passes the scheme check and is rejected by url.Parse; NotUrl
\* fails the scheme check and is accepted by url.Parse.
InputUrls == {UrlAX, UrlBY, BadPortUrl, NotUrl}
\* values of the Location header; the empty string is also what Headers.Get
\* returns when the header is absent
Locations == {EmptyString, RelZ, UrlBY}
StatusCodes == {200, 302}
\* a server that answers with a status on either side of 300 and of 400, or
\* with a client or server error
UrlC == HttpsPrefix \o <<"c">>
BoundaryStatusCodes == {299, 300, 399, 400, 404, 500}
\* the status codes the server of a url answers with
StatusCodesAt(url) == IF url = UrlC THEN BoundaryStatusCodes ELSE StatusCodes

nil == "nil"
FetchErrors == {"network error", "timeout"}
\* context.Canceled, the error of a context that is done
ErrContextCanceled == "context canceled"
ErrCircularRedirection == "circular redirection"

\* what FetcherClient.Fetch returns: (FetcherResponse{}, err) or (response, nil)
FetcherResponses ==
    [err : FetchErrors \cup {ErrContextCanceled}, StatusCode : {0}, Location : {EmptyString}]
    \cup [err : {nil}, StatusCode : StatusCodes \cup BoundaryStatusCodes, Location : Locations]

\* A fetcher may answer a repeated request differently: its answer depends on
\* the url and on whether this trace has requested the url before.
FetchKey(log, url) ==
    <<url, IF \E i \in 1..Len(log) : log[i].url = url THEN "again" ELSE "first">>

\* the fetcher of NewHttpFetcherClient, and the mockFetcherClient of the tests
FetcherKinds == {"http", "mock"}

\* defaultHttpFetcherClient.Fetch builds its request with the context
\* (http.NewRequestWithContext) and client.Do refuses a context that is done;
\* mockFetcherClient.Fetch never reads its ctx parameter
HonoursContext(kind) == kind = "http"

\* what a fetcher that honours the context returns once the context is done
CanceledResponse == [err |-> ErrContextCanceled, StatusCode |-> 0, Location |-> EmptyString]

\* fetcher.Fetch(ctx, url) returns res; the same question gets the same answer
\* in Track and in TrackChannel
Fetch(log, url, res) ==
    LET key == FetchKey(log, url) IN
    /\ res \in FetcherResponses
    /\ IF ctx_done /\ HonoursContext(fetcher)
       THEN res = CanceledResponse /\ world' = world
       ELSE /\ res.err # ErrContextCanceled
            /\ res.err = nil => res.StatusCode \in StatusCodesAt(url)
            /\ key \in DOMAIN world => res = world[key]
            /\ world' = IF key \in DOMAIN world THEN world ELSE (key :> res) @@ world

\* the urls a trace can come to fetch: the inputs and what the Location values
\* resolve to from them
RECURSIVE UrlClosure(_)
UrlClosure(urls) ==
    LET more == urls \cup {transformLocationUrl(l, u) : l \in Locations, u \in urls} IN
    IF more = urls THEN urls ELSE UrlClosure(more)

ReachableUrls == UrlClosure(InputUrls \cup {UrlC})

\* the values of transformLocationUrl on these, computed once and tabulated
\* (@@ makes the table an explicit one)
Resolved ==
    [p \in Locations \X ReachableUrls |-> transformLocationUrl(p[1], p[2])] @@ <<>>

LogCall(log, url, res) == Append(log, [url |-> url, res |-> res])

----------------------------------------------------------------------------
(* defaultTrackerService.Track *)

\* 400 taken for a redirect
IsRedirect_UpTo400(StatusCode) == StatusCode >= 300 /\ StatusCode <= 400

\* a lower bound of 200 in place of 300
IsRedirect_From200(StatusCode) == StatusCode >= 200 /\ StatusCode < 400

IsRedirect(StatusCode) == StatusCode >= 300 /\ StatusCode < 400

\* the checkpoint built from the redirect target in place of the fetched url
TrackCheckpoint_Target(url, res) == [Url |-> res.Location, Status |-> res.StatusCode]

TrackCheckpoint(url, res) == [Url |-> url, Status |-> res.StatusCode]

ZeroTrackResponse == [Url |-> EmptyString, Checkpoints |-> <<>>]

\* the error swallowed
TrackFail_NilError(err) == [response |-> ZeroTrackResponse, err |-> nil]

\* return TrackResponse{}, err
TrackFail(err) == [response |-> ZeroTrackResponse, err |-> err]

\* the checkpoints recorded left out of the response
TrackSucceed_NoCheckpoints(url, checkpoints) ==
    [response |-> [Url |-> url, Checkpoints |-> <<>>], err |-> nil]

\* return TrackResponse{Url: url, Checkpoints: checkpoints}, nil
TrackSucceed(url, checkpoints) ==
    [response |-> [Url |-> url, Checkpoints |-> checkpoints], err |-> nil]

\* the url the trace started from in place of the url just fetched
PreviousUrl_Input(url, inputUrl) == inputUrl

\* the second argument of the call of transformLocationUrl in the loop
PreviousUrl(url, inputUrl) == url

\* url = t.transformLocationUrl(res.Headers.Get("Location"), url)
NextUrl(res, url, inputUrl) ==
    Resolved[<<res.Location, PreviousUrl(url, inputUrl)>>]

\* no cycle check at all
AlreadyVisited_Never(visited, url) == FALSE

\* the cycle check: the url just fetched was fetched before in this trace
AlreadyVisited(visited, url) == url \in visited

NoReturn == [response |-> ZeroTrackResponse, err |-> "pending"]

\* the fetch fails and the checkpoints recorded so far are returned with the
\* error
TrackFetchError_PartialResponse ==
    /\ track_pc = "loop"
    /\ \E res \in FetcherResponses :
         /\ Fetch(track_log, track_url, res)
         /\ res.err # nil
         /\ track_log' = LogCall(track_log, track_url, res)
         /\ track_ret' = [response |-> [Url |-> track_url, Checkpoints |-> track_checkpoints],
                          err |-> res.err]
    /\ track_pc' = "returned"
    /\ UNCHANGED <<outerVars, track_url, track_checkpoints, track_visited>>
    /\ UNCHANGED <<producerVars, consumerVars>>

\* the fetch fails: return TrackResponse{}, err
TrackFetchError ==
    /\ track_pc = "loop"
    /\ \E res \in FetcherResponses :
         /\ Fetch(track_log, track_url, res)
         /\ res.err # nil
         /\ track_log' = LogCall(track_log, track_url, res)
         /\ track_ret' = TrackFail(res.err)
    /\ track_pc' = "returned"
    /\ UNCHANGED <<outerVars, track_url, track_checkpoints, track_visited>>
    /\ UNCHANGED <<producerVars, consumerVars>>

\* the abort before the fetch, on a target that was fetched before
TrackCircular_BeforeFetch ==
    /\ track_pc = "loop"
    /\ AlreadyVisited(track_visited, track_url)
    /\ track_ret' = TrackFail(ErrCircularRedirection)
    /\ track_pc' = "returned"
    /\ UNCHANGED <<outerVars, world, track_url, track_checkpoints, track_visited, track_log>>
    /\ UNCHANGED <<producerVars, consumerVars>>

\* the url was fetched before in this trace: the checkpoint is appended, then
\* the trace aborts with ErrCircularRedirection
TrackCircular ==
    /\ track_pc = "loop"
    /\ \E res \in FetcherResponses :
         /\ Fetch(track_log, track_url, res)
         /\ res.err = nil
         /\ AlreadyVisited(track_visited, track_url)
         /\ track_log' = LogCall(track_log, track_url, res)
         /\ track_checkpoints' = Append(track_checkpoints, TrackCheckpoint(track_url, res))
         /\ track_ret' = TrackFail(ErrCircularRedirection)
    /\ track_pc' = "returned"
    /\ UNCHANGED <<outerVars, track_url, track_visited>>
    /\ UNCHANGED <<producerVars, consumerVars>>

\* the last url fetched a second time before the return
TrackNotRedirect_FetchesTwice ==
    /\ track_pc = "loop"
    /\ \E res \in FetcherResponses :
         /\ Fetch(track_log, track_url, res)
         /\ res.err = nil
         /\ ~AlreadyVisited(track_visited, track_url)
         /\ ~IsRedirect(res.StatusCode)
         /\ track_log' = LogCall(LogCall(track_log, track_url, res), track_url, res)
         /\ track_checkpoints' = Append(track_checkpoints, TrackCheckpoint(track_url, res))
         /\ track_visited' = track_visited \cup {track_url}
         /\ track_ret' = TrackSucceed(track_url, track_checkpoints')
    /\ track_pc' = "returned"
    /\ UNCHANGED <<outerVars, track_url>>
    /\ UNCHANGED <<producerVars, consumerVars>>

\* the status is no redirect: break, return the response
TrackNotRedirect ==
    /\ track_pc = "loop"
    /\ \E res \in FetcherResponses :
         /\ Fetch(track_log, track_url, res)
         /\ res.err = nil
         /\ ~AlreadyVisited(track_visited, track_url)
         /\ ~IsRedirect(res.StatusCode)
         /\ track_log' = LogCall(track_log, track_url, res)
         /\ track_checkpoints' = Append(track_checkpoints, TrackCheckpoint(track_url, res))
         /\ track_visited' = track_visited \cup {track_url}
         /\ track_ret' = TrackSucceed(track_url, track_checkpoints')
    /\ track_pc' = "returned"
    /\ UNCHANGED <<outerVars, track_url>>
    /\ UNCHANGED <<producerVars, consumerVars>>

\* a redirect whose next url is empty: url = "", break, return the response
TrackUnresolved ==
    /\ track_pc = "loop"
    /\ \E res \in FetcherResponses :
         /\ Fetch(track_log, track_url, res)
         /\ res.err = nil
         /\ ~AlreadyVisited(track_visited, track_url)
         /\ IsRedirect(res.StatusCode)
         /\ NextUrl(res, track_url, input) = EmptyString
         /\ track_log' = LogCall(track_log, track_url, res)
         /\ track_checkpoints' = Append(track_checkpoints, TrackCheckpoint(track_url, res))
         /\ track_visited' = track_visited \cup {track_url}
         /\ track_url' = NextUrl(res, track_url, input)
         /\ track_ret' = TrackSucceed(track_url', track_checkpoints')
    /\ track_pc' = "returned"
    /\ UNCHANGED outerVars
    /\ UNCHANGED <<producerVars, consumerVars>>

\* checkpoints declared inside the loop: each round starts a new slice
TrackRedirect_FreshSlice ==
    /\ track_pc = "loop"
    /\ \E res \in FetcherResponses :
         /\ Fetch(track_log, track_url, res)
         /\ res.err = nil
         /\ ~AlreadyVisited(track_visited, track_url)
         /\ IsRedirect(res.StatusCode)
         /\ NextUrl(res, track_url, input) # EmptyString
         /\ track_log' = LogCall(track_log, track_url, res)
         /\ track_checkpoints' = <<TrackCheckpoint(track_url, res)>>
         /\ track_visited' = track_visited \cup {track_url}
         /\ track_url' = NextUrl(res, track_url, input)
    /\ UNCHANGED <<outerVars, track_pc, track_ret>>
    /\ UNCHANGED <<producerVars, consumerVars>>

\* a redirect to a next url: the loop goes round
TrackRedirect ==
    /\ track_pc = "loop"
    /\ \E res \in FetcherResponses :
         /\ Fetch(track_log, track_url, res)
         /\ res.err = nil
         /\ ~AlreadyVisited(track_visited, track_url)
         /\ IsRedirect(res.StatusCode)
         /\ NextUrl(res, track_url, input) # EmptyString
         /\ track_log' = LogCall(track_log, track_url, res)
         /\ track_checkpoints' = Append(track_checkpoints, TrackCheckpoint(track_url, res))
         /\ track_visited' = track_visited \cup {track_url}
         /\ track_url' = NextUrl(res, track_url, input)
    /\ UNCHANGED <<outerVars, track_pc, track_ret>>
    /\ UNCHANGED <<producerVars, consumerVars>>

Track ==
    \/ TrackFetchError
    \/ TrackCircular
    \/ TrackNotRedirect
    \/ TrackUnresolved
    \/ TrackRedirect

----------------------------------------------------------------------------
(* defaultTrackerService.TrackChannel: the goroutine and the channel *)

\* The field Checkpoint is a pointer: the empty sequence is the nil pointer,
\* a sequence of one checkpoint a pointer to it.
NilCheckpoint == <<>>

\* the zero TrackChannelResponse
NoEvent == [Checkpoint |-> NilCheckpoint, Err |-> nil, Finished |-> FALSE]

\* the error sent with Finished set as well
ErrEvent_AlsoFinished(err) == [Checkpoint |-> NilCheckpoint, Err |-> err, Finished |-> TRUE]

ErrEvent(err) == [Checkpoint |-> NilCheckpoint, Err |-> err, Finished |-> FALSE]

\* the status left out of the checkpoint sent
CheckpointEvent_NoStatus(url, res) ==
    [Checkpoint |-> <<[Url |-> url, Status |-> 0]>>, Err |-> nil, Finished |-> FALSE]

CheckpointEvent(url, res) ==
    [Checkpoint |-> <<TrackCheckpoint(url, res)>>, Err |-> nil, Finished |-> FALSE]

FinishedEvent == [Checkpoint |-> NilCheckpoint, Err |-> nil, Finished |-> TRUE]

\* the fetch tried again after it failed
TCFetchError_Retry ==
    /\ tc_pc = "fetch"
    /\ \E res \in FetcherResponses :
         /\ Fetch(tc_log, tc_url, res)
         /\ res.err # nil
         /\ tc_log' = LogCall(tc_log, tc_url, res)
         /\ tc_res' = res
    /\ UNCHANGED <<outerVars, tc_pc, tc_url, tc_visited, tc_pending, ch_closed>>
    /\ UNCHANGED <<trackVars, consumerVars>>

\* the fetch fails: the goroutine goes to send the error
TCFetchError ==
    /\ tc_pc = "fetch"
    /\ \E res \in FetcherResponses :
         /\ Fetch(tc_log, tc_url, res)
         /\ res.err # nil
         /\ tc_log' = LogCall(tc_log, tc_url, res)
         /\ tc_res' = res
         /\ tc_pending' = ErrEvent(res.err)
    /\ tc_pc' = "sendErr"
    /\ UNCHANGED <<outerVars, tc_url, tc_visited, ch_closed>>
    /\ UNCHANGED <<trackVars, consumerVars>>

\* url kept in one place for every trace of the service: the goroutine fetches
\* the url Track is at
TCFetchOk_SharedUrl ==
    /\ tc_pc = "fetch"
    /\ \E res \in FetcherResponses :
         /\ Fetch(tc_log, track_url, res)
         /\ res.err = nil
         /\ tc_log' = LogCall(tc_log, track_url, res)
         /\ tc_res' = res
         /\ tc_pending' = CheckpointEvent(track_url, res)
    /\ tc_pc' = "sendCheckpoint"
    /\ UNCHANGED <<outerVars, tc_url, tc_visited, ch_closed>>
    /\ UNCHANGED <<trackVars, consumerVars>>

\* the fetch succeeds: the goroutine goes to send the checkpoint
TCFetchOk ==
    /\ tc_pc = "fetch"
    /\ \E res \in FetcherResponses :
         /\ Fetch(tc_log, tc_url, res)
         /\ res.err = nil
         /\ tc_log' = LogCall(tc_log, tc_url, res)
         /\ tc_res' = res
         /\ tc_pending' = CheckpointEvent(tc_url, res)
    /\ tc_pc' = "sendCheckpoint"
    /\ UNCHANGED <<outerVars, tc_url, tc_visited, ch_closed>>
    /\ UNCHANGED <<trackVars, consumerVars>>

\* the wire form of an event: dto.NewTrackErrorResponse, NewTrackFinishResponse
\* and NewTrackCheckpointResponse, with the keys of their JSON encoding
ErrorFrame(message) == [typename |-> "Error", error |-> message]
FinishFrame == [typename |-> "Finish"]
CheckpointFrame(checkpoint) ==
    [typename |-> "Checkpoint", url |-> checkpoint.Url, status |-> checkpoint.Status]

\* the frame the handler of /ws writes for a response of the channel: it
\* tests Err first, then Finished, and takes the rest for a checkpoint
Frame(response) ==
    IF response.Err # nil THEN ErrorFrame(response.Err)
    ELSE IF response.Finished THEN FinishFrame
    ELSE CheckpointFrame(response.Checkpoint[1])

\* the handler leaving the channel after Finished only
ContinueWsLoop_FinishedOnly(response) == response.Finished

\* the handler leaving the channel after Err only
ContinueWsLoop_ErrOnly(response) == response.Err # nil

\* the handler leaves the channel for the next message after Err or Finished
ContinueWsLoop(response) == response.Err # nil \/ response.Finished

\* ws.WriteJSON(frame), among the frames written for the message being handled
WriteJSON(frames, frame) == [frames EXCEPT ![Len(frames)] = Append(@, frame)]

\* what the receiver does with a response before it receives again: the range
\* loop of a direct caller keeps it; the handler of /ws writes its frame
Consume(response) ==
    IF entry = "ws"
    THEN /\ ws_frames' = WriteJSON(ws_frames, Frame(response))
         /\ recv_pc' = IF ContinueWsLoop(response) THEN "read" ELSE "receiving"
    ELSE UNCHANGED <<ws_frames, recv_pc>>

\* ch is unbuffered: a send completes when the consumer receives it
Handoff(from, to) ==
    /\ tc_pc = from
    /\ recv_pc = "receiving"
    /\ received' = Append(received, tc_pending)
    /\ Consume(tc_pending)
    /\ tc_pending' = NoEvent
    /\ tc_pc' = to
    /\ UNCHANGED <<callerVars, reply, ws_msgs, fnVars, httpVars, originVars, pkgVars>>
    /\ UNCHANGED <<world, tc_url, tc_res, tc_visited, tc_log, ch_closed>>
    /\ UNCHANGED trackVars

\* the return after the send of the error left out
SendErr_NoReturn == Handoff("sendErr", "afterCheckpoint")

\* ch <- TrackChannelResponse{Err: err}; return
SendErr == Handoff("sendErr", "return")

\* a send that gives up when no receiver is ready: the checkpoint is dropped
SendCheckpoint_Dropped ==
    /\ tc_pc = "sendCheckpoint"
    /\ tc_pending' = NoEvent
    /\ tc_pc' = "afterCheckpoint"
    /\ UNCHANGED <<outerVars, world, tc_url, tc_res, tc_visited, tc_log, ch_closed>>
    /\ UNCHANGED <<trackVars, consumerVars>>

\* a channel with a buffer: the send returns before any receive
SendCheckpoint_Buffered ==
    /\ tc_pc = "sendCheckpoint"
    /\ tc_pc' = "afterCheckpoint"
    /\ UNCHANGED <<outerVars, world, tc_url, tc_res, tc_visited, tc_log, tc_pending>>
    /\ UNCHANGED <<ch_closed, trackVars, consumerVars>>

\* ch <- TrackChannelResponse{Checkpoint: ...}
SendCheckpoint == Handoff("sendCheckpoint", "afterCheckpoint")

\* ch <- TrackChannelResponse{Finished: true}; return
SendFinished == Handoff("sendFinished", "return")

\* the url was fetched before in this trace: the goroutine goes to send
\* ErrCircularRedirection
TCCircular ==
    /\ tc_pc = "afterCheckpoint"
    /\ AlreadyVisited(tc_visited, tc_url)
    /\ tc_pending' = ErrEvent(ErrCircularRedirection)
    /\ tc_pc' = "sendErr"
    /\ UNCHANGED <<outerVars, world, tc_url, tc_res, tc_visited, tc_log, ch_closed>>
    /\ UNCHANGED <<trackVars, consumerVars>>

\* the status is no redirect: the goroutine goes to send Finished
TCNotRedirect ==
    /\ tc_pc = "afterCheckpoint"
    /\ ~AlreadyVisited(tc_visited, tc_url)
    /\ ~IsRedirect(tc_res.StatusCode)
    /\ tc_visited' = tc_visited \cup {tc_url}
    /\ tc_pending' = FinishedEvent
    /\ tc_pc' = "sendFinished"
    /\ UNCHANGED <<outerVars, world, tc_url, tc_res, tc_log, ch_closed>>
    /\ UNCHANGED <<trackVars, consumerVars>>

\* a redirect whose next url is empty: the goroutine goes to send Finished
TCUnresolved ==
    /\ tc_pc = "afterCheckpoint"
    /\ ~AlreadyVisited(tc_visited, tc_url)
    /\ IsRedirect(tc_res.StatusCode)
    /\ NextUrl(tc_res, tc_url, input) = EmptyString
    /\ tc_visited' = tc_visited \cup {tc_url}
    /\ tc_url' = NextUrl(tc_res, tc_url, input)
    /\ tc_pending' = FinishedEvent
    /\ tc_pc' = "sendFinished"
    /\ UNCHANGED <<outerVars, world, tc_res, tc_log, ch_closed>>
    /\ UNCHANGED <<trackVars, consumerVars>>

\* the visited set replaced by the url just fetched
TCRedirect_VisitedLastOnly ==
    /\ tc_pc = "afterCheckpoint"
    /\ ~AlreadyVisited(tc_visited, tc_url)
    /\ IsRedirect(tc_res.StatusCode)
    /\ NextUrl(tc_res, tc_url, input) # EmptyString
    /\ tc_visited' = {tc_url}
    /\ tc_url' = NextUrl(tc_res, tc_url, input)
    /\ tc_pc' = "fetch"
    /\ UNCHANGED <<outerVars, world, tc_res, tc_log, tc_pending, ch_closed>>
    /\ UNCHANGED <<trackVars, consumerVars>>

\* a redirect to a next url: the loop goes round
TCRedirect ==
    /\ tc_pc = "afterCheckpoint"
    /\ ~AlreadyVisited(tc_visited, tc_url)
    /\ IsRedirect(tc_res.StatusCode)
    /\ NextUrl(tc_res, tc_url, input) # EmptyString
    /\ tc_visited' = tc_visited \cup {tc_url}
    /\ tc_url' = NextUrl(tc_res, tc_url, input)
    /\ tc_pc' = "fetch"
    /\ UNCHANGED <<outerVars, world, tc_res, tc_log, tc_pending, ch_closed>>
    /\ UNCHANGED <<trackVars, consumerVars>>

\* the close forgotten
CloseChannel_Forgotten(closed) == closed

\* close(ch)
CloseChannel(closed) == TRUE

\* defer close(ch)
TCClose ==
    /\ tc_pc = "return"
    /\ ch_closed' = CloseChannel(ch_closed)
    /\ tc_pc' = "exited"
    /\ UNCHANGED <<outerVars, world, tc_url, tc_res, tc_visited, tc_log, tc_pending>>
    /\ UNCHANGED <<trackVars, consumerVars>>

\* for response := range ch ends when ch is closed
RangeEnds ==
    /\ recv_pc = "receiving"
    /\ ch_closed
    /\ recv_pc' = "done"
    /\ UNCHANGED <<outerVars, world, received>>
    /\ UNCHANGED <<trackVars, producerVars>>

\* The caller of TrackChannel holds the receive end of ch and is free to leave
\* its loop before the terminal event (a break, a return, a select on
\* ctx.Done()): from then on nothing receives from ch
StopReceiving ==
    /\ entry = "direct"
    /\ recv_pc = "receiving"
    /\ ~ch_closed
    /\ recv_pc' = "stopped"
    /\ UNCHANGED <<outerVars, world, received>>
    /\ UNCHANGED <<trackVars, producerVars>>

TrackChannel ==
    \/ TCFetchError
    \/ TCFetchOk
    \/ SendErr
    \/ SendCheckpoint
    \/ SendFinished
    \/ TCCircular
    \/ TCNotRedirect
    \/ TCUnresolved
    \/ TCRedirect
    \/ TCClose

----------------------------------------------------------------------------
(* The entry points: the track command, POST /tracks and GET /ws *)

\* the service is called: Track(ctx, url)
CallTrack(url) ==
    /\ track_pc = "idle"
    /\ track_pc' = "loop"
    /\ track_url' = url
    /\ UNCHANGED <<track_checkpoints, track_visited, track_log, track_ret>>

NoReply == [status |-> -1, error |-> nil, trace |-> ZeroTrackResponse]

\* log.Fatal(v): v is printed and the process exits with status 1
Fatal(v) == [status |-> 1, error |-> v, trace |-> ZeroTrackResponse]

\* track, PreRun: the argument does not match ^https?://
CliInvalidUrl ==
    /\ entry = "cli"
    /\ track_pc = "idle"
    /\ reply = NoReply
    /\ ~IsUrl(input)
    /\ reply' = Fatal("Invalid URL")
    /\ UNCHANGED <<callerVars, ws_msgs, ws_frames, fnVars, httpVars, originVars, pkgVars, world>>
    /\ UNCHANGED <<trackVars, producerVars, consumerVars>>

\* track, PreRun passes and Run calls the service
CliRun ==
    /\ entry = "cli"
    /\ reply = NoReply
    /\ IsUrl(input)
    /\ CallTrack(input)
    /\ UNCHANGED <<outerVars, world, producerVars, consumerVars>>

\* track, Run after the service returns: log.Fatal(err), or the checkpoints
\* are printed
CliPrint ==
    /\ entry = "cli"
    /\ track_pc = "returned"
    /\ reply = NoReply
    /\ reply' = IF track_ret.err # nil THEN Fatal(track_ret.err)
                ELSE [status |-> 0, error |-> nil, trace |-> track_ret.response]
    /\ UNCHANGED <<callerVars, ws_msgs, ws_frames, fnVars, httpVars, originVars, pkgVars, world>>
    /\ UNCHANGED <<trackVars, producerVars, consumerVars>>

\* POST /tracks: c.Bind fails on the body, and echo answers the error it
\* returns with 400
PostBindFails ==
    /\ entry = "post"
    /\ track_pc = "idle"
    /\ reply = NoReply
    /\ reply' = [status |-> 400, error |-> "Bad Request", trace |-> ZeroTrackResponse]
    /\ UNCHANGED <<callerVars, ws_msgs, ws_frames, fnVars, httpVars, originVars, pkgVars, world>>
    /\ UNCHANGED <<trackVars, producerVars, consumerVars>>

\* POST /tracks: the body binds and the handler calls the service
PostTracks ==
    /\ entry = "post"
    /\ reply = NoReply
    /\ CallTrack(input)
    /\ UNCHANGED <<outerVars, world, producerVars, consumerVars>>

\* the branch of ErrCircularRedirection left out
PostReply_NoConflict(ret) ==
    IF ret.err = nil
    THEN [status |-> 200, error |-> nil, trace |-> ret.response]
    ELSE [status |-> 500, error |-> "Internal Server Error", trace |-> ZeroTrackResponse]

\* POST /tracks after the service returns: 409 with the error for
\* ErrCircularRedirection; any other error is returned to echo, which answers
\* an error that is no HTTPError with 500; else 200 with the response
PostReply(ret) ==
    IF ret.err # nil
    THEN IF ret.err = ErrCircularRedirection
         THEN [status |-> 409, error |-> ret.err, trace |-> ZeroTrackResponse]
         ELSE [status |-> 500, error |-> "Internal Server Error",
               trace |-> ZeroTrackResponse]
    ELSE [status |-> 200, error |-> nil, trace |-> ret.response]

PostReplies ==
    /\ entry = "post"
    /\ track_pc = "returned"
    /\ reply = NoReply
    /\ reply' = PostReply(track_ret)
    /\ UNCHANGED <<callerVars, ws_msgs, ws_frames, fnVars, httpVars, originVars, pkgVars, world>>
    /\ UNCHANGED <<trackVars, producerVars, consumerVars>>

\* the zero FetcherResponse
NoResponse == [err |-> nil, StatusCode |-> 0, Location |-> EmptyString]

\* the messages a client sends on /ws: one that json.Unmarshal rejects, and
\* {"url": input}
Malformed == "malformed"
Request == "request"
\* how many messages the handler reads from one connection
MaxMessages == 2

\* the text of the error of json.Unmarshal
JsonError == "invalid character"

\* the handler that only logs the error
MalformedReply_LogOnly(frames) == Append(frames, <<>>)

\* err = ws.WriteJSON(dto.NewTrackErrorResponse(err))
MalformedReply(frames) == Append(frames, <<ErrorFrame(JsonError)>>)

\* /ws: a message is read that does not unmarshal: the error is written and
\* the handler reads again
WsMalformed ==
    /\ entry = "ws"
    /\ recv_pc = "read"
    /\ Len(ws_msgs) < MaxMessages
    /\ ws_msgs' = Append(ws_msgs, Malformed)
    /\ ws_frames' = MalformedReply(ws_frames)
    /\ UNCHANGED <<callerVars, reply, fnVars, httpVars, originVars, pkgVars, world>>
    /\ UNCHANGED <<trackVars, producerVars, consumerVars>>

\* /ws: the next request read while the trace of the one before is running
WsRequest_WithoutWaiting ==
    /\ entry = "ws"
    /\ recv_pc \in {"read", "receiving"}
    /\ Len(ws_msgs) < MaxMessages
    /\ ws_msgs' = Append(ws_msgs, Request)
    /\ ws_frames' = Append(ws_frames, <<>>)
    /\ tc_pc' = "fetch"
    /\ tc_url' = input
    /\ tc_res' = NoResponse
    /\ tc_visited' = {}
    /\ tc_log' = <<>>
    /\ tc_pending' = NoEvent
    /\ ch_closed' = FALSE
    /\ recv_pc' = "receiving"
    /\ received' = <<>>
    /\ UNCHANGED <<callerVars, reply, fnVars, httpVars, originVars, pkgVars, world, trackVars>>

\* /ws: a request is read: trackChannel := service.TrackChannel(ctx, request.Url)
\* makes a new channel and starts a new goroutine, and the handler receives
\* from the channel.  (The goroutine of the request before has sent its last
\* event; the close it may still owe is of a channel nothing reads any more.)
WsRequest ==
    /\ entry = "ws"
    /\ recv_pc = "read"
    /\ Len(ws_msgs) < MaxMessages
    /\ ws_msgs' = Append(ws_msgs, Request)
    /\ ws_frames' = Append(ws_frames, <<>>)
    /\ tc_pc' = "fetch"
    /\ tc_url' = input
    /\ tc_res' = NoResponse
    /\ tc_visited' = {}
    /\ tc_log' = <<>>
    /\ tc_pending' = NoEvent
    /\ ch_closed' = FALSE
    /\ recv_pc' = "receiving"
    /\ received' = <<>>
    /\ UNCHANGED <<callerVars, reply, fnVars, httpVars, originVars, pkgVars, world, trackVars>>

\* /ws: ws.ReadMessage returns the error of a closed connection and the
\* handler returns
WsClientCloses ==
    /\ entry = "ws"
    /\ recv_pc = "read"
    /\ recv_pc' = "closed"
    /\ UNCHANGED <<outerVars, world, received, trackVars, producerVars>>

Cli == CliInvalidUrl \/ CliRun \/ CliPrint
Post == PostBindFails \/ PostTracks \/ PostReplies
Ws == WsMalformed \/ WsRequest \/ WsClientCloses

----------------------------------------------------------------------------
(* The caller cancels the context *)

Cancel ==
    /\ ~ctx_done
    /\ ctx_done' = TRUE
    /\ UNCHANGED <<input, entry, fetcher, replyVars, fnVars, httpVars, originVars, pkgVars, world>>
    /\ UNCHANGED <<trackVars, producerVars, consumerVars>>

----------------------------------------------------------------------------
(* transformLocationUrl called alone *)

NoResult == <<>>

\* A resolver that joins every location, absolute or not, to the previous url
Resolve_AlwaysJoins ==
    /\ fn_out = NoResult
    /\ fn_out' = <<transformLocationUrl(EmptyString, fn_in.previous) \o fn_in.location>>
    /\ UNCHANGED <<callerVars, replyVars, fn_in, httpVars, originVars, pkgVars, world>>
    /\ UNCHANGED <<trackVars, producerVars, consumerVars>>

\* url = t.transformLocationUrl(location, previous)
Resolve ==
    /\ fn_out = NoResult
    /\ fn_out' = <<transformLocationUrl(fn_in.location, fn_in.previous)>>
    /\ UNCHANGED <<callerVars, replyVars, fn_in, httpVars, originVars, pkgVars, world>>
    /\ UNCHANGED <<trackVars, producerVars, consumerVars>>

----------------------------------------------------------------------------
(* defaultHttpFetcherClient.Fetch called alone, with the http.Client of    *)
(* NewHttpFetcherClient                                                    *)

ErrUseLastResponse == "net/http: use last response"

\* a policy that lets the client go on to the target of the redirect
CheckRedirect_Follow(via) == nil

\* the CheckRedirect of the client
CheckRedirect(via) == ErrUseLastResponse

\* what a server answers to a request, and what the transport returns when
\* it gets no answer
HttpStatusCodes == {200, 300, 301, 302, 303, 307, 308, 399, 404, 500}
ServerAnswers ==
    [err : {nil}, StatusCode : HttpStatusCodes, Location : Locations]
    \cup [err : FetchErrors, StatusCode : {0}, Location : {EmptyString}]

\* redirectBehavior of net/http for a GET: 301, 302 and 303 are redirects to
\* follow, 307 and 308 are when they carry a Location
ShouldRedirect(resp) ==
    \/ resp.StatusCode \in {301, 302, 303}
    \/ resp.StatusCode \in {307, 308} /\ resp.Location # EmptyString

\* req.URL.Parse(loc) of the client, for the references sent here: an absolute
\* url, or a path that starts with a slash
ResolveReference(loc, url) == transformLocationUrl(loc, url)

\* whether client.Do goes on to a further request after this answer: the
\* answer is a redirect with a Location, and CheckRedirect returns no error
Follows(resp, via) ==
    /\ resp.err = nil
    /\ ShouldRedirect(resp)
    /\ resp.Location # EmptyString
    /\ CheckRedirect(via) = nil

\* the fetcher is called: Fetch(ctx, url)
HttpFetch ==
    /\ http_pc = "idle"
    /\ http_pc' = "build"
    /\ http_url' = input
    /\ UNCHANGED <<callerVars, replyVars, fnVars, originVars, pkgVars, http_sent, http_ret, world>>
    /\ UNCHANGED <<trackVars, producerVars, consumerVars>>

\* http.NewRequestWithContext parses the url: on its error Fetch returns
\* FetcherResponse{}, err
HttpNewRequest ==
    /\ http_pc = "build"
    /\ IF Parse(http_url).ok
       THEN http_pc' = "do" /\ UNCHANGED http_ret
       ELSE /\ http_pc' = "returned"
            /\ http_ret' = [err |-> "invalid url", StatusCode |-> 0, Location |-> EmptyString]
    /\ UNCHANGED <<callerVars, replyVars, fnVars, originVars, pkgVars, http_url, http_sent, world>>
    /\ UNCHANGED <<trackVars, producerVars, consumerVars>>

\* a request the client cannot send: its url has no http or https scheme or
\* no host
Unsendable(url) ==
    \/ Parse(url).Scheme \notin {<<"h","t","t","p">>, <<"h","t","t","p","s">>}
    \/ Parse(url).Host = EmptyString

\* client.Do returns an error without sending: the context is done, or the
\* request cannot be sent
HttpRefuses ==
    /\ http_pc = "do"
    /\ ctx_done \/ Unsendable(http_url)
    /\ http_pc' = "returned"
    /\ http_ret' = [err |-> IF ctx_done THEN ErrContextCanceled ELSE "unsupported protocol scheme",
                    StatusCode |-> 0, Location |-> EmptyString]
    /\ UNCHANGED <<callerVars, replyVars, fnVars, originVars, pkgVars, http_url, http_sent, world>>
    /\ UNCHANGED <<trackVars, producerVars, consumerVars>>

\* client.Do sends the request and gets an answer or a transport error; it
\* goes on to the target of a redirect when CheckRedirect allows, else it
\* returns, and Fetch returns the status and the headers of the answer
HttpSend ==
    /\ http_pc = "do"
    /\ ~ctx_done
    /\ ~Unsendable(http_url)
    /\ \E resp \in ServerAnswers :
         /\ http_sent' = Append(http_sent, [url |-> http_url, answer |-> resp])
         /\ IF Follows(resp, http_sent')
            THEN /\ http_url' = ResolveReference(resp.Location, http_url)
                 /\ UNCHANGED <<http_pc, http_ret>>
            ELSE /\ http_pc' = "returned"
                 /\ http_ret' = resp
                 /\ UNCHANGED http_url
    /\ UNCHANGED <<callerVars, replyVars, fnVars, originVars, pkgVars, world>>
    /\ UNCHANGED <<trackVars, producerVars, consumerVars>>

----------------------------------------------------------------------------
(* The origin check of the WebSocket upgrader *)

Star == <<"*">>

\* strings.Split(s, ",")
RECURSIVE Split(_)
Split(s) ==
    IF ~Contains(s, ",") THEN <<s>>
    ELSE <<SubSeq(s, 1, Index(s, ",") - 1)>> \o Split(SubSeq(s, Index(s, ",") + 1, Len(s)))

\* init(): the value of ALLOWED_ORIGINS split at its commas, or the list of
\* "*" alone when the variable is empty or not set
AllowedOriginsOf(envAllowedOrigins) ==
    IF envAllowedOrigins # EmptyString THEN Split(envAllowedOrigins) ELSE <<Star>>

\* a loop that returns false at the first origin that does not match
checkOrigin_FirstOnly(origins, origin) ==
    origins # <<>> /\ (origins[1] = Star \/ origins[1] = origin)

\* checkOrigin(origins)(r), origin being r.Header.Get("Origin")
checkOrigin(origins, origin) ==
    \E i \in 1..Len(origins) : origins[i] = Star \/ origins[i] = origin

\* a request to upgrade arrives and the upgrader calls CheckOrigin
CheckOrigin ==
    /\ upgrade_ok = NoResult
    /\ upgrade_ok' = <<checkOrigin(allowedOrigins, request_origin)>>
    /\ UNCHANGED <<callerVars, replyVars, fnVars, httpVars, pkgVars, world>>
    /\ UNCHANGED <<allowedOrigins, request_origin>>
    /\ UNCHANGED <<trackVars, producerVars, consumerVars>>

----------------------------------------------------------------------------
(* package set: a Set over a map[T]struct{} *)

\* the value struct{}{} of every key of the map
EmptyStruct == "struct{}{}"

\* New: m: make(map[T]struct{})
SetNew == <<>>

\* s.m[t] = struct{}{}
SetAdd(m, t) == [k \in DOMAIN m \cup {t} |-> IF k = t THEN EmptyStruct ELSE m[k]]

\* Remove deleting nothing
SetRemove_Noop(m, t) == m

\* delete(s.m, t)
SetRemove(m, t) == [k \in DOMAIN m \ {t} |-> m[k]]

\* _, ok := s.m[t]; return ok
SetContains(m, t) == t \in DOMAIN m

\* len(s.m)
SetLen(m) == Cardinality(DOMAIN m)

\* the elements the callers add and remove
Items == {"item1", "item2", "nonexistent"}

\* the number of calls made on one Set
MaxOps == 4

CallAdd ==
    /\ Len(set_ops) < MaxOps
    /\ \E t \in Items :
         /\ set_m' = SetAdd(set_m, t)
         /\ set_ops' = Append(set_ops, <<"Add", t>>)
    /\ UNCHANGED <<callerVars, replyVars, fnVars, httpVars, originVars, is_url, world>>
    /\ UNCHANGED <<trackVars, producerVars, consumerVars>>

CallRemove ==
    /\ Len(set_ops) < MaxOps
    /\ \E t \in Items :
         /\ set_m' = SetRemove(set_m, t)
         /\ set_ops' = Append(set_ops, <<"Remove", t>>)
    /\ UNCHANGED <<callerVars, replyVars, fnVars, httpVars, originVars, is_url, world>>
    /\ UNCHANGED <<trackVars, producerVars, consumerVars>>

----------------------------------------------------------------------------
(* utils.IsUrl called alone: urlRegex.MatchString(url)                     *)

\* the regular expression ^https?:// after its anchor: the characters to
\* match in order, each one required or optional
urlRegex ==
    << [char |-> "h", optional |-> FALSE], [char |-> "t", optional |-> FALSE],
       [char |-> "t", optional |-> FALSE], [char |-> "p", optional |-> FALSE],
       [char |-> "s", optional |-> TRUE],  [char |-> ":", optional |-> FALSE],
       [char |-> "/", optional |-> FALSE], [char |-> "/", optional |-> FALSE] >>

\* the expression from its i-th character on matches s from its j-th character on
RECURSIVE MatchHere(_, _, _, _)
MatchHere(re, i, s, j) ==
    IF i > Len(re) THEN TRUE
    ELSE \/ /\ j <= Len(s)
            /\ s[j] = re[i].char
            /\ MatchHere(re, i + 1, s, j + 1)
         \/ /\ re[i].optional
            /\ MatchHere(re, i + 1, s, j)

\* a match looked for at every position of the string
MatchString_Unanchored(re, s) == \E j \in 1..(Len(s) + 1) : MatchHere(re, 1, s, j)

\* MatchString of an expression that starts with ^: a match at the start
MatchString(re, s) == MatchHere(re, 1, s, 1)

\* how the strings given to IsUrl begin
UrlHeads ==
    { EmptyString, HttpPrefix, HttpsPrefix,
      <<"h","t","t","p",":","/">>, <<"h","t","t","p",":">>, <<"h","t","t","p">>,
      <<"h","t","t","p","s",":","/">>, <<"h","t","t","p","s","s",":","/","/">>,
      <<"h","t","t","t","p",":","/","/">>, <<"f","t","p",":","/","/">>,
      <<"H","T","T","P",":","/","/">>, <<"x","h","t","t","p",":","/","/">>,
      <<" ","h","t","t","p","s",":","/","/">>, <<"h","t","t","p","/","/">>,
      <<":","/","/">> }

\* how they go on
UrlTails ==
    { EmptyString, <<"a">>, <<"a",".","c","/","p">>, <<"a",":","8">>,
      <<"n","o","t"," ","a"," ","u","r","l">>, <<"/">>,
      <<"a","?","h","t","t","p",":","/","/","b">> }

UrlCandidates == {head \o tail : head \in UrlHeads, tail \in UrlTails}

\* utils.IsUrl(input)
CallIsUrl ==
    /\ is_url = NoResult
    /\ is_url' = <<MatchString(urlRegex, input)>>
    /\ UNCHANGED <<callerVars, replyVars, fnVars, httpVars, originVars, set_m, set_ops, world>>
    /\ UNCHANGED <<trackVars, producerVars, consumerVars>>

----------------------------------------------------------------------------
(* The specifications *)

\* no Set in use but a new one; IsUrl not called alone
NoPackageCall ==
    /\ set_m = SetNew
    /\ set_ops = <<>>
    /\ is_url = NoResult

\* no request to upgrade; ALLOWED_ORIGINS not set
NoUpgrade ==
    /\ allowedOrigins = <<Star>>
    /\ request_origin = EmptyString
    /\ upgrade_ok = NoResult

\* Fetch of the http fetcher not called
NoRequest ==
    /\ http_pc = "idle"
    /\ http_url = EmptyString
    /\ http_sent = <<>>
    /\ http_ret = NoResponse

NoArguments == [location |-> EmptyString, previous |-> EmptyString]

\* no fetch made yet; Track, the goroutine and the consumer at the given places
Calls(track_at, goroutine_at, consumer_at, url) ==
    /\ world = <<>>
    /\ track_pc = track_at
    /\ track_url = url
    /\ track_checkpoints = <<>>
    /\ track_visited = {}
    /\ track_log = <<>>
    /\ track_ret = NoReturn
    /\ tc_pc = goroutine_at
    /\ tc_url = url
    /\ tc_res = NoResponse
    /\ tc_visited = {}
    /\ tc_log = <<>>
    /\ tc_pending = NoEvent
    /\ ch_closed = FALSE
    /\ recv_pc = consumer_at
    /\ received = <<>>

\* nothing answered, nothing read, nothing written
NoReplies == reply = NoReply /\ ws_msgs = <<>> /\ ws_frames = <<>>

\* One call of Track and one call of TrackChannel, on the same url and the
\* same fetcher, with a context that is never cancelled, in any interleaving
Init ==
    /\ input \in InputUrls
    /\ entry = "direct"
    /\ fetcher = "http"
    /\ ctx_done = FALSE
    /\ Calls("loop", "fetch", "receiving", input)
    /\ NoReplies
    /\ fn_in = NoArguments
    /\ fn_out = NoResult
    /\ NoRequest
    /\ NoUpgrade
    /\ NoPackageCall

Next == Track \/ TrackChannel \/ RangeEnds

Spec == Init /\ [][Next]_vars

\* the goroutine, the synchronous caller and the consumer each keep running
FairSpec == Spec /\ WF_vars(Track) /\ WF_vars(TrackChannel) /\ WF_vars(RangeEnds)

\* The same two calls with either fetcher and a context the caller may cancel
\* at any moment
CancelInit ==
    /\ input \in InputUrls
    /\ entry = "direct"
    /\ fetcher \in FetcherKinds
    /\ ctx_done = FALSE
    /\ Calls("loop", "fetch", "receiving", input)
    /\ NoReplies
    /\ fn_in = NoArguments
    /\ fn_out = NoResult
    /\ NoRequest
    /\ NoUpgrade
    /\ NoPackageCall

CancelNext == Track \/ TrackChannel \/ RangeEnds \/ Cancel

CancelSpec == CancelInit /\ [][CancelNext]_vars

\* The two calls of Init with a context the caller may cancel and a consumer
\* that may stop receiving at any moment; the goroutine, the synchronous caller and
\* the range loop each keep running while they can take a step
AbandonNext == Track \/ TrackChannel \/ RangeEnds \/ Cancel \/ StopReceiving

AbandonSpec ==
    /\ Init
    /\ [][AbandonNext]_vars
    /\ WF_vars(Track)
    /\ WF_vars(TrackChannel)
    /\ WF_vars(RangeEnds)

\* the urls of two callers of one service: a trace from the first goes
\* through the second when it is redirected there, and a trace from the third
\* ends at its first redirect
ConcurrentUrls == {UrlAX, UrlBY, BadPortUrl}

\* A second caller calls Track on the same service, with a url of its own, at
\* any moment of the trace of TrackChannel
ConcurrentCall ==
    /\ entry = "direct"
    /\ \E url \in ConcurrentUrls : CallTrack(url)
    /\ UNCHANGED <<outerVars, world, producerVars, consumerVars>>

ConcurrentInit ==
    /\ input \in ConcurrentUrls
    /\ entry = "direct"
    /\ fetcher = "http"
    /\ ctx_done = FALSE
    /\ Calls("idle", "fetch", "receiving", input)
    /\ NoReplies
    /\ fn_in = NoArguments
    /\ fn_out = NoResult
    /\ NoRequest
    /\ NoUpgrade
    /\ NoPackageCall

ConcurrentNext == ConcurrentCall \/ Track \/ TrackChannel \/ RangeEnds

ConcurrentSpec == ConcurrentInit /\ [][ConcurrentNext]_vars

\* One call of Track and one call of TrackChannel on the url of the server
\* that answers with the status codes around 300 and 400, or on a url that no
\* relative Location resolves against
BoundaryInit ==
    /\ input \in {UrlC, BadPortUrl}
    /\ entry = "direct"
    /\ fetcher = "http"
    /\ ctx_done = FALSE
    /\ Calls("loop", "fetch", "receiving", input)
    /\ NoReplies
    /\ fn_in = NoArguments
    /\ fn_out = NoResult
    /\ NoRequest
    /\ NoUpgrade
    /\ NoPackageCall

BoundarySpec == BoundaryInit /\ [][Next]_vars

\* A caller gives the url to one of the entry points of the program
EntryInit ==
    /\ input \in InputUrls
    /\ entry \in {"cli", "post", "ws"}
    /\ fetcher = "http"
    /\ ctx_done = FALSE
    /\ Calls("idle", "idle", IF entry = "ws" THEN "read" ELSE "idle", EmptyString)
    /\ NoReplies
    /\ fn_in = NoArguments
    /\ fn_out = NoResult
    /\ NoRequest
    /\ NoUpgrade
    /\ NoPackageCall

EntryNext == Cli \/ Post \/ Ws \/ Track \/ TrackChannel

EntrySpec == EntryInit /\ [][EntryNext]_vars

\* the parts of a previous url, put together as scheme://host path query
Schemes == {<<"h","t","t","p">>, <<"h","t","t","p","s">>}
Hosts == {<<"a">>, <<"b",":","8">>}
Paths == {EmptyString, <<"/","x">>, <<"/","x","/",".",".","/","y">>}
Queries == {EmptyString, <<"?","q">>}

Assemble(scheme, host, path, query) == scheme \o <<":","/","/">> \o host \o path \o query

AssembledUrls ==
    {Assemble(s, h, p, q) : s \in Schemes, h \in Hosts, p \in Paths, q \in Queries}

\* urls that url.Parse rejects: a port that is no number, a first segment
\* that holds a colon, no scheme before the colon
UnparsableUrls == {BadPortUrl, <<":","/","/","/","z">>, <<"1",":","2">>}

\* urls that url.Parse accepts with an empty scheme and an empty host: a bare
\* word, the "invalid-url" kind of the tests, a path
SchemelessUrls == {NotUrl, <<"x","-","y">>, <<"/","p">>}

\* values of Location that match ^https?://, and values that do not
AbsoluteLocations == {UrlBY, HttpsPrefix \o <<"a","/","x","?","q">>, HttpPrefix}
RelativeLocations ==
    {EmptyString, RelZ, <<"/",".",".","/","z">>, <<"z">>, <<"?","q">>,
     <<"/","/","c","/","z">>, <<"h","t","t","p",":","/">>}

FnLocations == AbsoluteLocations \cup RelativeLocations
FnPreviousUrls == AssembledUrls \cup UnparsableUrls \cup SchemelessUrls

\* One call of transformLocationUrl on any of these arguments
FnInit ==
    /\ input = EmptyString
    /\ entry = "direct"
    /\ fetcher = "http"
    /\ ctx_done = FALSE
    /\ Calls("idle", "idle", "idle", EmptyString)
    /\ NoReplies
    /\ fn_in \in [location : FnLocations, previous : FnPreviousUrls]
    /\ fn_out = NoResult
    /\ NoRequest
    /\ NoUpgrade
    /\ NoPackageCall

FnNext == Resolve

FnSpec == FnInit /\ [][FnNext]_vars

\* the values of ALLOWED_ORIGINS: every text of at most MaxEnvLen characters
\* among two letters, the star and the comma
MaxEnvLen == 3
EnvChars == {"a", "b", "*", ","}
EnvValues == UNION {[1..n -> EnvChars] : n \in 0..MaxEnvLen}
\* the values of the Origin header; the empty one is also what Header.Get
\* returns when the header is absent
OriginHeaders == {EmptyString, <<"a">>, <<"b">>, <<"a","b">>, Star}

\* The program starts with ALLOWED_ORIGINS set or not, and a request to
\* upgrade arrives with or without an Origin header
OriginInit ==
    /\ input = EmptyString
    /\ entry = "direct"
    /\ fetcher = "http"
    /\ ctx_done = FALSE
    /\ Calls("idle", "idle", "idle", EmptyString)
    /\ NoReplies
    /\ fn_in = NoArguments
    /\ fn_out = NoResult
    /\ NoRequest
    /\ \E envAllowedOrigins \in EnvValues : allowedOrigins = AllowedOriginsOf(envAllowedOrigins)
    /\ request_origin \in OriginHeaders
    /\ upgrade_ok = NoResult
    /\ NoPackageCall

OriginNext == CheckOrigin

OriginSpec == OriginInit /\ [][OriginNext]_vars

\* A new Set, on which callers make up to MaxOps calls of Add and Remove
SetInit ==
    /\ input = EmptyString
    /\ entry = "direct"
    /\ fetcher = "http"
    /\ ctx_done = FALSE
    /\ Calls("idle", "idle", "idle", EmptyString)
    /\ NoReplies
    /\ fn_in = NoArguments
    /\ fn_out = NoResult
    /\ NoRequest
    /\ NoUpgrade
    /\ NoPackageCall

SetNext == CallAdd \/ CallRemove

SetSpec == SetInit /\ [][SetNext]_vars

\* IsUrl is called on a string
IsUrlInit ==
    /\ input \in UrlCandidates
    /\ entry = "direct"
    /\ fetcher = "http"
    /\ ctx_done = FALSE
    /\ Calls("idle", "idle", "idle", EmptyString)
    /\ NoReplies
    /\ fn_in = NoArguments
    /\ fn_out = NoResult
    /\ NoRequest
    /\ NoUpgrade
    /\ NoPackageCall

IsUrlNext == CallIsUrl

IsUrlSpec == IsUrlInit /\ [][IsUrlNext]_vars

\* urls no request is sent for: url.Parse rejects the first, the others have
\* no http(s) scheme or no host
UnsendableUrls == {BadPortUrl, HttpPrefix} \cup SchemelessUrls

HttpUrls == {UrlAX, UrlBY} \cup UnsendableUrls

\* One call of Fetch on the fetcher of NewHttpFetcherClient, on any url, with
\* a context that is done or not
HttpInit ==
    /\ input \in HttpUrls
    /\ entry = "direct"
    /\ fetcher = "http"
    /\ ctx_done \in BOOLEAN
    /\ Calls("idle", "idle", "idle", EmptyString)
    /\ NoReplies
    /\ fn_in = NoArguments
    /\ fn_out = NoResult
    /\ NoRequest
    /\ NoUpgrade
    /\ NoPackageCall

HttpNext == HttpFetch \/ HttpNewRequest \/ HttpRefuses \/ HttpSend

HttpSpec == HttpInit /\ [][HttpNext]_vars

----------------------------------------------------------------------------
(* Properties *)

Last(s) == s[Len(s)]

TrackReturned == track_pc = "returned"

\* the call of Fetch returned a response, not an error
Succeeded(call) == call.res.err = nil

\* the response of the call has a status in [300, 400)
RedirectStatus(call) == call.res.StatusCode >= 300 /\ call.res.StatusCode < 400

DistinctUrls(log) == \A i, j \in 1..Len(log) : i # j => log[i].url # log[j].url

\* C1: when the first fetch succeeds with a status outside [300, 400), Track
\* returns no error and exactly one checkpoint, whose url is the input url.
C1_NoRedirectSingleCheckpoint ==
    (TrackReturned /\ Succeeded(track_log[1]) /\ ~RedirectStatus(track_log[1]))
    => /\ track_ret.err = nil
       /\ Len(track_ret.response.Checkpoints) = 1
       /\ track_ret.response.Checkpoints[1].Url = input

\* Track has returned after a first answer of 200 that carried a Location header
C1_Witness ==
    /\ TrackReturned
    /\ Succeeded(track_log[1])
    /\ ~RedirectStatus(track_log[1])
    /\ track_log[1].res.Location = UrlBY
    /\ input = UrlAX
    /\ track_ret.err = nil

\* the calls of a trace form a chain of redirects through distinct urls that
\* ends in a status outside [300, 400)
RedirectChain(log) ==
    /\ Len(log) >= 1
    /\ \A i \in 1..Len(log) : Succeeded(log[i])
    /\ DistinctUrls(log)
    /\ \A i \in 1..(Len(log) - 1) : RedirectStatus(log[i])
    /\ ~RedirectStatus(Last(log))

\* C2: for a chain of N redirects through distinct urls that ends in a status
\* outside [300, 400), Track returns N+1 checkpoints, one per fetch and in the
\* order of the fetches, each with the url fetched and the status returned.
C2_ChainCheckpoints ==
    (TrackReturned /\ RedirectChain(track_log))
    => /\ track_ret.err = nil
       /\ Len(track_ret.response.Checkpoints) = Len(track_log)
       /\ track_ret.response.Checkpoints[1].Url = input
       /\ \A i \in 1..Len(track_log) :
            track_ret.response.Checkpoints[i] =
                [Url |-> track_log[i].url, Status |-> track_log[i].res.StatusCode]

\* Track has returned from a chain of three redirects
C2_Witness ==
    /\ TrackReturned
    /\ RedirectChain(track_log)
    /\ Len(track_log) = 4
    /\ Len(track_ret.response.Checkpoints) = 4

\* a url got a response for the second time in the trace, at call j
RefetchedAt(log, j) ==
    /\ j \in 1..Len(log)
    /\ Succeeded(log[j])
    /\ \E i \in 1..(j - 1) : log[i].url = log[j].url

Refetched(log) == \E j \in 1..Len(log) : RefetchedAt(log, j)

StreamCheckpoints(events) ==
    LET cps == SelectSeq(events, LAMBDA e : e.Checkpoint # <<>>) IN
    [i \in 1..Len(cps) |-> cps[i].Checkpoint[1]]

BothEnded == TrackReturned /\ recv_pc = "done"

\* C5 as stated: for every fetcher behaviour the checkpoints TrackChannel emits
\* are the checkpoint list Track returns.
C5_StreamEqualsTrackAlways ==
    BothEnded => StreamCheckpoints(received) = track_ret.response.Checkpoints

\* C5 as amended: when Track returns without error the checkpoints TrackChannel
\* emits are, in order and content, the checkpoint list Track returns; when
\* Track returns an error it returns no checkpoint, and TrackChannel has
\* emitted the checkpoints Track had recorded before the error.
C5_StreamEqualsTrackOnSuccess ==
    BothEnded
    => /\ track_ret.err = nil
          => StreamCheckpoints(received) = track_ret.response.Checkpoints
       /\ track_ret.err # nil
          => /\ track_ret.response.Checkpoints = <<>>
             /\ StreamCheckpoints(received) = track_checkpoints

\* both ended without error after three checkpoints
C5_Witness ==
    /\ BothEnded
    /\ track_ret.err = nil
    /\ Len(track_ret.response.Checkpoints) = 3
    /\ Len(received) = 4

IsTerminal(e) == e.Err # nil \/ e.Finished

TerminalCount(events) == Cardinality({i \in 1..Len(events) : IsTerminal(events[i])})

\* C6: a stream holds at most one terminal event (Error or Finished, never
\* both in one event), nothing is received after it, the goroutine does
\* nothing after it but close the channel, and a closed channel has delivered
\* exactly one.
C6_OneTerminalEventLast ==
    /\ TerminalCount(received) <= 1
    /\ \A i \in 1..Len(received) :
         /\ ~(received[i].Err # nil /\ received[i].Finished)
         /\ IsTerminal(received[i])
            => i = Len(received) /\ tc_pc \in {"return", "exited"}
    /\ ch_closed => TerminalCount(received) = 1 /\ IsTerminal(Last(received))
    /\ recv_pc = "done" => ch_closed

\* a stream of two checkpoints and Finished has ended
C6_Witness ==
    /\ recv_pc = "done"
    /\ Len(received) = 3
    /\ received[3] = FinishedEvent
    /\ received[1].Checkpoint # <<>>
    /\ received[2].Checkpoint # <<>>

\* C7: when a fetch fails the trace ends with the error of that fetch, and the
\* failed fetch leaves no checkpoint: Track has recorded, and TrackChannel has
\* emitted, one checkpoint for each fetch before it and none for it.
C7_FetchErrorAborts ==
    /\ \A k \in 1..Len(track_log) : ~Succeeded(track_log[k])
         => /\ k = Len(track_log)
            /\ TrackReturned
            /\ track_ret.err = track_log[k].res.err
            /\ track_ret.response.Checkpoints = <<>>
            /\ Len(track_checkpoints) = k - 1
            /\ \A i \in 1..(k - 1) : track_checkpoints[i].Url = track_log[i].url
    /\ \A k \in 1..Len(tc_log) : ~Succeeded(tc_log[k])
         => /\ k = Len(tc_log)
            /\ tc_pc \in {"sendErr", "return", "exited"}
            /\ tc_pc = "sendErr" => tc_pending = ErrEvent(tc_log[k].res.err)
            /\ tc_pc # "sendErr" => Last(received) = ErrEvent(tc_log[k].res.err)
            /\ Len(StreamCheckpoints(received)) = k - 1
            /\ \A i \in 1..(k - 1) : StreamCheckpoints(received)[i].Url = tc_log[i].url

\* the third fetch of both traces timed out
C7_Witness ==
    /\ BothEnded
    /\ Len(track_log) = 3
    /\ track_log[3].res.err = "timeout"
    /\ track_ret.err = "timeout"
    /\ Len(tc_log) = 3
    /\ Last(received).Err = "timeout"

\* C8: when the k-th fetch of TrackChannel fails, the consumer has already
\* received the Checkpoint events of the k-1 fetches before it, in order, and
\* the Error event is received after them, as event k.
C8_CheckpointsBeforeError ==
    \A k \in 1..Len(tc_log) : ~Succeeded(tc_log[k])
      => /\ Len(received) >= k - 1
         /\ \A j \in 1..(k - 1) :
              received[j] = [Checkpoint |-> <<[Url |-> tc_log[j].url,
                                               Status |-> tc_log[j].res.StatusCode]>>,
                             Err |-> nil, Finished |-> FALSE]
         /\ \A i \in 1..Len(received) : received[i].Err # nil => i = k

\* the fourth fetch failed and its Error event was received as event four
C8_Witness ==
    /\ Len(tc_log) = 4
    /\ ~Succeeded(tc_log[4])
    /\ Len(received) = 4
    /\ received[4].Err = tc_log[4].res.err
    /\ recv_pc = "done"

UrlBZ == <<"h","t","t","p",":","/","/","b",":","8","/","z">>
UrlAZ == <<"h","t","t","p","s",":","/","/","a","/","z">>

\* every relative Location of the log was resolved against the url of its own call
RelativeHops(log) ==
    \A k \in 1..(Len(log) - 1) :
      (RedirectStatus(log[k]) /\ ~IsUrl(log[k].res.Location) /\ Parse(log[k].url).ok)
      => /\ log[k + 1].url = Parse(log[k].url).Scheme \o <<":","/","/">>
                             \o Parse(log[k].url).Host \o log[k].res.Location
         /\ (log[k].url = UrlBY /\ log[k].res.Location = RelZ) => log[k + 1].url = UrlBZ
         /\ (log[k].url = UrlAX /\ log[k].res.Location = RelZ) => log[k + 1].url = UrlAZ

\* C9: a relative Location received at hop k is resolved against the scheme and
\* host of the url fetched at hop k, in Track and in TrackChannel.
C9_RelativeAgainstPreviousHop == RelativeHops(track_log) /\ RelativeHops(tc_log)

\* a trace from host a was redirected to host b and then by /z to http://b:8/z
C9_Witness ==
    /\ input = UrlAX
    /\ Len(track_log) >= 3
    /\ track_log[2].url = UrlBY
    /\ track_log[2].res.Location = RelZ
    /\ track_log[3].url = UrlBZ
    /\ Len(tc_log) >= 3
    /\ tc_log[3].url = UrlBZ

\* C10: when Track returns without error, the Url of its response is the Url of
\* the last checkpoint of its response.
C10_FinalUrlIsLastCheckpoint ==
    (TrackReturned /\ track_ret.err = nil)
    => track_ret.response.Url = Last(track_ret.response.Checkpoints).Url

\* call k of the log got a redirect whose next url resolves to the empty string
\* (and the url was not fetched before: the cycle check comes first)
UnresolvedAt(log, k) ==
    /\ k \in 1..Len(log)
    /\ Succeeded(log[k])
    /\ RedirectStatus(log[k])
    /\ ~RefetchedAt(log, k)
    /\ transformLocationUrl(log[k].res.Location, log[k].url) = EmptyString

\* the checkpoints are those of the first k calls of the log, in order
CheckpointsOfCalls(checkpoints, log, k) ==
    /\ Len(checkpoints) = k
    /\ \A i \in 1..k :
         checkpoints[i] = [Url |-> log[i].url, Status |-> log[i].res.StatusCode]

\* C11: when the next hop of a redirect resolves to the empty string, that fetch
\* is the last of the trace and the trace ends without error: Track returns a
\* nil error with every checkpoint recorded so far, TrackChannel emits the
\* checkpoints and then Finished, never an Error event.
C11_UnresolvedHopEndsSuccessfully ==
    /\ \A k \in 1..Len(track_log) : UnresolvedAt(track_log, k)
         => /\ k = Len(track_log)
            /\ TrackReturned
            /\ track_ret.err = nil
            /\ CheckpointsOfCalls(track_ret.response.Checkpoints, track_log, k)
    /\ \A k \in 1..Len(tc_log) : UnresolvedAt(tc_log, k)
         => /\ k = Len(tc_log)
            /\ tc_pc # "fetch"
            /\ tc_pending.Err = nil
            /\ \A i \in 1..Len(received) : received[i].Err = nil
            /\ tc_pc = "sendFinished" => tc_pending = FinishedEvent
            /\ tc_pc \in {"sendFinished", "return", "exited"}
               => CheckpointsOfCalls(StreamCheckpoints(received), tc_log, k)
            /\ tc_pc \in {"return", "exited"} => Last(received) = FinishedEvent

\* both traces went from x to :///z, whose redirect to /z resolves to nothing,
\* and ended there
C11_Witness ==
    /\ BothEnded
    /\ input = NotUrl
    /\ UnresolvedAt(track_log, 2)
    /\ UnresolvedAt(tc_log, 2)
    /\ track_ret.err = nil
    /\ Len(track_ret.response.Checkpoints) = 2
    /\ Len(received) = 3
    /\ Last(received) = FinishedEvent

\* C12: when a redirect response carries an empty Location header, Track ends
\* the trace at that hop: once Track has returned, the fetch that got such a
\* response is the last one, and Track has returned no error and at least one
\* checkpoint.
C12_EmptyLocationEndsTrace ==
    TrackReturned
    => \A k \in 1..Len(track_log) :
         (/\ Succeeded(track_log[k])
          /\ RedirectStatus(track_log[k])
          /\ ~RefetchedAt(track_log, k)
          /\ track_log[k].res.Location = EmptyString)
         => /\ k = Len(track_log)
            /\ track_ret.err = nil
            /\ Len(track_ret.response.Checkpoints) >= 1

\* C13: once the context is cancelled no further fetch takes effect and the
\* trace ends with an error: a call of Fetch made by Track or by TrackChannel
\* with a cancelled context returns an error, Track returns an error and the
\* goroutine goes to send one, whatever the fetcher.
C13_NoFetchAfterCancel ==
    [][ctx_done
       => /\ track_log' # track_log
             => /\ ~Succeeded(Last(track_log'))
                /\ track_pc' = "returned"
                /\ track_ret'.err # nil
          /\ tc_log' # tc_log
             => /\ ~Succeeded(Last(tc_log'))
                /\ tc_pc' = "sendErr"]_vars

\* C14: the goroutine of TrackChannel is at most one fetch ahead of the
\* consumer: it has made at most one call more than the consumer has received
\* events, and whenever it is about to fetch, the consumer has received the
\* Checkpoint events of all the calls made so far, in order; an event is
\* pending only while the goroutine is blocked in a send.
C14_ProducerOneFetchAhead ==
    /\ Len(tc_log) <= Len(received) + 1
    /\ tc_pc \in {"fetch", "afterCheckpoint"}
       => /\ CheckpointsOfCalls(StreamCheckpoints(received), tc_log, Len(tc_log))
          /\ Len(received) = Len(tc_log)
    /\ tc_pending # NoEvent <=> tc_pc \in {"sendErr", "sendCheckpoint", "sendFinished"}
    /\ tc_pc = "sendCheckpoint"
       => /\ tc_pending = [Checkpoint |-> <<[Url |-> Last(tc_log).url,
                                             Status |-> Last(tc_log).res.StatusCode]>>,
                           Err |-> nil, Finished |-> FALSE]
          /\ Len(received) = Len(tc_log) - 1

\* the goroutine is blocked in the send of its third checkpoint while Track
\* has long returned, and the consumer has received two
C14_Witness ==
    /\ tc_pc = "sendCheckpoint"
    /\ Len(tc_log) = 3
    /\ Len(received) = 2
    /\ TrackReturned
    /\ Len(track_log) = 4

C16_MalformedPayload ==
    /\ [](\A i \in 1..Len(ws_msgs) :
            ws_msgs[i] = Malformed => ws_frames[i] = <<ErrorFrame(JsonError)>>)
    /\ []((recv_pc = "read" /\ Len(ws_msgs) < MaxMessages) => ENABLED WsRequest)
    /\ [][(ws_msgs' # ws_msgs /\ Last(ws_msgs') = Malformed)
          => /\ ws_frames' = Append(ws_frames, <<ErrorFrame(JsonError)>>)
             /\ UNCHANGED <<producerVars, received, world, trackVars>>
             /\ recv_pc' = "read"]_vars

\* after a malformed message the same connection took a request and wrote its
\* two checkpoints and Finish
C16_Witness ==
    /\ entry = "ws"
    /\ ws_msgs = <<Malformed, Request>>
    /\ recv_pc = "read"
    /\ Len(ws_frames[1]) = 1
    /\ ws_frames[1][1].typename = "Error"
    /\ Len(ws_frames[2]) = 3
    /\ ws_frames[2][1] = [typename |-> "Checkpoint", url |-> UrlAX, status |-> 302]
    /\ ws_frames[2][2] = [typename |-> "Checkpoint", url |-> UrlBY, status |-> 200]
    /\ ws_frames[2][3] = [typename |-> "Finish"]

IsTerminalFrame(frame) == frame.typename \in {"Error", "Finish"}

\* C17: for every request read on /ws, the frames written for it are the
\* events of its trace in the order the goroutine sent them: one Checkpoint
\* frame per fetch that got a response, in fetch order, then, once the request
\* is done, exactly one terminal frame (Error or Finish), which is the last;
\* after a terminal frame the handler no longer receives from the channel.
C17_WsForwardsInOrder ==
    \A i \in 1..Len(ws_msgs) : ws_msgs[i] = Request
      => LET frames == ws_frames[i]
             terminals == {j \in 1..Len(frames) : IsTerminalFrame(frames[j])}
             done == i < Len(ws_msgs) \/ recv_pc \in {"read", "closed"}
         IN /\ Cardinality(terminals) <= 1
            /\ \A j \in terminals : j = Len(frames)
            /\ done <=> terminals # {}
            /\ i = Len(ws_msgs)
               => /\ Len(frames) = Len(received)
                  /\ \A j \in 1..Len(frames) :
                       /\ received[j].Checkpoint # <<>>
                          => frames[j] = [typename |-> "Checkpoint",
                                          url |-> tc_log[j].url,
                                          status |-> tc_log[j].res.StatusCode]
                       /\ received[j].Err # nil
                          => frames[j] = [typename |-> "Error", error |-> received[j].Err]
                       /\ received[j].Finished => frames[j] = [typename |-> "Finish"]
                  /\ terminals # {} => recv_pc # "receiving"

\* the second request on a connection got three checkpoints and then an Error
C17_Witness ==
    /\ entry = "ws"
    /\ ws_msgs = <<Request, Request>>
    /\ recv_pc = "read"
    /\ Len(ws_frames[2]) = 4
    /\ ws_frames[2][4] = [typename |-> "Error", error |-> "timeout"]
    /\ \A j \in 1..3 : ws_frames[2][j].typename = "Checkpoint"
    /\ ws_frames[1] = ws_frames[2]

\* C18: for a url that does not match ^https?:// no fetch is ever issued, at
\* whichever entry point the caller gave it: neither Track nor TrackChannel
\* calls the fetcher.
C18_InvalidUrlNeverFetched ==
    ~IsUrl(input) => (track_log = <<>> /\ tc_log = <<>>)

\* C19: transformLocationUrl returns a location that matches ^https?://
\* unchanged, whatever the previous url, and for any other location the scheme
\* and host of the previous url (port kept) as scheme://host followed by the
\* location as it stands (query kept, no path normalisation).
C19_ResolverJoinsSchemeAndHost ==
    fn_out # NoResult
    => /\ fn_in.location \in AbsoluteLocations => fn_out[1] = fn_in.location
       /\ \A s \in Schemes, h \in Hosts, p \in Paths, q \in Queries :
            (fn_in.previous = Assemble(s, h, p, q) /\ fn_in.location \in RelativeLocations)
            => fn_out[1] = s \o <<":","/","/">> \o h \o fn_in.location
       /\ (fn_in.previous = NotUrl /\ fn_in.location \in RelativeLocations)
          => fn_out[1] = <<":","/","/">> \o fn_in.location

\* /../z after http://b:8/x/../y?q gave http://b:8/../z
C19_Witness ==
    /\ fn_in.previous = Assemble(<<"h","t","t","p">>, <<"b",":","8">>,
                                 <<"/","x","/",".",".","/","y">>, <<"?","q">>)
    /\ fn_in.location = <<"/",".",".","/","z">>
    /\ fn_out = <<HttpPrefix \o <<"b",":","8","/",".",".","/","z">>>>

\* C20 as stated: for every location that is not empty and every previous url
\* the result of the resolver is not empty.
C20_EmptyOnlyForEmptyLocation ==
    (fn_out # NoResult /\ fn_in.location # EmptyString) => fn_out[1] # EmptyString

\* C20 as amended: the resolver returns the empty string exactly when the
\* location does not match ^https?:// and the previous url fails to parse,
\* be the location empty or not; for a previous url that parses the result is
\* never empty, not even for the empty location.
C20_EmptyIffPreviousUnparsable ==
    fn_out # NoResult
    => /\ fn_out[1] = EmptyString
          <=> (fn_in.location \in RelativeLocations /\ fn_in.previous \in UnparsableUrls)
       /\ fn_in.previous \in AssembledUrls \cup {NotUrl} => Len(fn_out[1]) >= 3

\* /z after https://a:x resolved to the empty string
C20_Witness ==
    /\ fn_in.location = RelZ
    /\ fn_in.previous = BadPortUrl
    /\ fn_out = <<EmptyString>>

Degenerate(location) == <<":","/","/">> \o location

\* C21 as stated: for a location that does not match ^https?:// and a previous
\* url that url.Parse rejects, the resolver returns :// followed by the location.
C21_UnparsablePreviousGivesDegenerate ==
    (fn_out # NoResult /\ fn_in.location \in RelativeLocations
       /\ fn_in.previous \in UnparsableUrls)
    => fn_out[1] = Degenerate(fn_in.location)

\* C21 as amended: for a location that does not match ^https?://, the resolver
\* returns :// followed by the location when the previous url parses with an
\* empty scheme and an empty host, and the empty string when the previous url
\* fails to parse.
C21_SchemelessPreviousGivesDegenerate ==
    (fn_out # NoResult /\ fn_in.location \in RelativeLocations)
    => /\ fn_in.previous \in SchemelessUrls => fn_out[1] = Degenerate(fn_in.location)
       /\ fn_in.previous \in UnparsableUrls => fn_out[1] = EmptyString

\* /z after x-y resolved to :///z
C21_Witness ==
    /\ fn_in.location = RelZ
    /\ fn_in.previous = <<"x","-","y">>
    /\ fn_out = <<<<":","/","/","/","z">>>>

\* Track returned an error
TrackErrored == TrackReturned /\ track_ret.err # nil

\* the error TrackChannel is sending or has sent, nil when there is none
StreamError ==
    IF tc_pc = "sendErr" THEN tc_pending.Err
    ELSE IF received # <<>> THEN Last(received).Err
    ELSE nil

\* the error a trace ends with after these calls: the error of the fetcher when
\* the last call failed, ErrCircularRedirection when it fetched a url again
ErrorOfCalls(log) ==
    IF log = <<>> THEN nil
    ELSE IF ~Succeeded(Last(log)) THEN Last(log).res.err
    ELSE IF RefetchedAt(log, Len(log)) THEN ErrCircularRedirection
    ELSE nil

\* C22: a fetch that failed is the last fetch of its trace, and the error the
\* caller gets is the error the fetcher returned (ErrCircularRedirection after
\* a url fetched again); once a trace has its error it never fetches again and
\* its error never changes.
C22_ErrorsTerminalNotRetried ==
    /\ [](/\ \A k \in 1..Len(track_log) : ~Succeeded(track_log[k]) => k = Len(track_log)
          /\ \A k \in 1..Len(tc_log) : ~Succeeded(tc_log[k]) => k = Len(tc_log)
          /\ TrackErrored => track_ret.err = ErrorOfCalls(track_log)
          /\ StreamError # nil => StreamError = ErrorOfCalls(tc_log))
    /\ [][/\ TrackErrored => UNCHANGED <<track_log, track_ret>>
          /\ StreamError # nil => (tc_log' = tc_log /\ StreamError' = StreamError)]_vars

\* after one redirect the second fetch of both traces failed with a network
\* error, which Track returned and the consumer received last
C22_Witness ==
    /\ BothEnded
    /\ Len(track_log) = 2
    /\ track_log[2].res.err = "network error"
    /\ track_ret.err = "network error"
    /\ Len(tc_log) = 2
    /\ tc_log[2].res.err = "network error"
    /\ Last(received) = ErrEvent("network error")

\* The trace of url run alone to its end against the answers the fetcher has
\* given: its calls and its error.  "unknown" when the fetcher has not been
\* asked a question the trace comes to.
RECURSIVE TraceAlone(_, _, _)
TraceAlone(url, log, visited) ==
    LET key == FetchKey(log, url) IN
    IF key \notin DOMAIN world THEN [log |-> log, err |-> "unknown", url |-> url]
    ELSE LET res == world[key]
             calls == LogCall(log, url, res)
             next == Resolved[<<res.Location, url>>]
         IN
         IF res.err # nil THEN [log |-> calls, err |-> res.err, url |-> url]
         ELSE IF AlreadyVisited(visited, url)
              THEN [log |-> calls, err |-> ErrCircularRedirection, url |-> url]
         ELSE IF ~IsRedirect(res.StatusCode) THEN [log |-> calls, err |-> nil, url |-> url]
         ELSE IF next = EmptyString THEN [log |-> calls, err |-> nil, url |-> next]
         ELSE TraceAlone(next, calls, visited \cup {url})

\* the checkpoints of the successful calls among these, in order
RECURSIVE CheckpointsOf(_)
CheckpointsOf(log) ==
    IF log = <<>> THEN <<>>
    ELSE LET before == CheckpointsOf(SubSeq(log, 1, Len(log) - 1)) IN
         IF Succeeded(Last(log))
         THEN Append(before, TrackCheckpoint(Last(log).url, Last(log).res))
         ELSE before

\* what Track returns for a trace that ran alone
ReturnOf(alone) ==
    IF alone.err # nil THEN [response |-> ZeroTrackResponse, err |-> alone.err]
    ELSE [response |-> [Url |-> alone.url, Checkpoints |-> CheckpointsOf(alone.log)],
          err |-> nil]

\* the events TrackChannel sends for a trace that ran alone
RECURSIVE CheckpointEventsOf(_)
CheckpointEventsOf(checkpoints) ==
    IF checkpoints = <<>> THEN <<>>
    ELSE <<[Checkpoint |-> <<Head(checkpoints)>>, Err |-> nil, Finished |-> FALSE]>>
         \o CheckpointEventsOf(Tail(checkpoints))

EventsOf(alone) ==
    Append(CheckpointEventsOf(CheckpointsOf(alone.log)),
           [Checkpoint |-> NilCheckpoint, Err |-> alone.err, Finished |-> alone.err = nil])

\* C23: with a call of Track and a call of TrackChannel running on one service
\* at the same time, on urls of their own and in any interleaving, each trace
\* makes the calls, and ends with the checkpoints and the outcome, of the same
\* trace run alone against the same answers of the fetcher.
C23_ConcurrentTracesIndependent ==
    /\ TrackReturned
       => LET alone == TraceAlone(track_log[1].url, <<>>, {}) IN
          /\ track_log = alone.log
          /\ track_ret = ReturnOf(alone)
          /\ track_checkpoints = CheckpointsOf(alone.log)
    /\ tc_pc \in {"return", "exited"}
       => LET alone == TraceAlone(input, <<>>, {}) IN
          /\ tc_log = alone.log
          /\ received = EventsOf(alone)

\* Track was called on http://b:8/y and returned after two fetches while the
\* trace of TrackChannel on https://a/x, three fetches long and through the
\* same url, was at its second fetch
C23_Witness ==
    /\ input = UrlAX
    /\ TrackReturned
    /\ track_log[1].url = UrlBY
    /\ Len(track_log) = 2
    /\ track_ret.err = nil
    /\ Len(tc_log) = 2
    /\ tc_log[2].url = UrlBY
    /\ tc_pc = "sendCheckpoint"

HttpReturned == http_pc = "returned"

\* C24 as stated: when Fetch has returned, exactly one request was sent, to
\* the url it was given, and the status and Location returned are those of
\* the answer to it, redirect or not.
C24_ExactlyOneRequest ==
    HttpReturned
    => /\ Len(http_sent) = 1
       /\ http_sent[1].url = input
       /\ http_ret = http_sent[1].answer

\* C24 as amended: Fetch sends at most one request, to the url it was given;
\* it sends none, and returns an error, when the url does not parse, is not
\* an http(s) url with a host, or the context is done; when it returns a
\* response, it sent one request and returns the status and Location of the
\* answer to it, redirect or not.
C24_AtMostOneRequestNoFollow ==
    HttpReturned
    => /\ Len(http_sent) <= 1
       /\ Len(http_sent) = 0
          <=> (input \in UnsendableUrls \/ ctx_done)
       /\ Len(http_sent) = 0 => http_ret.err # nil
       /\ Len(http_sent) = 1
          => /\ http_sent[1].url = input
             /\ http_ret = http_sent[1].answer

\* Fetch of https://a/x returned the 302 and the Location of the one answer
C24_Witness ==
    /\ HttpReturned
    /\ input = UrlAX
    /\ Len(http_sent) = 1
    /\ http_ret = [err |-> nil, StatusCode |-> 302, Location |-> UrlBY]

\* C25: every frame written on /ws carries the discriminator and the payload
\* of its kind: a Checkpoint frame the url and the status of the checkpoint,
\* an Error frame the error message under error, a Finish frame finished set
\* to true.
C25_FramesCarryPayloadOfKind ==
    \A m \in 1..Len(ws_frames) : \A i \in 1..Len(ws_frames[m]) :
        LET frame == ws_frames[m][i] IN
        /\ frame.typename \in {"Checkpoint", "Error", "Finish"}
        /\ frame.typename = "Checkpoint" => {"url", "status"} \subseteq DOMAIN frame
        /\ frame.typename = "Error" => "error" \in DOMAIN frame /\ frame.error # nil
        /\ frame.typename = "Finish" => "finished" \in DOMAIN frame /\ frame.finished = TRUE

\* the origins of the list, as a set
OriginSet(origins) == {origins[i] : i \in 1..Len(origins)}

\* C26 as stated: CheckOrigin accepts the request exactly when the list holds
\* "*" or the value of the Origin header, and a request whose Origin is empty
\* is rejected whenever the list holds no "*".
C26_EmptyOriginRejectedWithoutStar ==
    upgrade_ok # NoResult
    => /\ upgrade_ok[1] <=> (Star \in OriginSet(allowedOrigins)
                             \/ request_origin \in OriginSet(allowedOrigins))
       /\ (request_origin = EmptyString /\ Star \notin OriginSet(allowedOrigins))
          => ~upgrade_ok[1]

\* C26 as amended: CheckOrigin accepts the request exactly when the list holds
\* "*" or the value of the Origin header, and a request whose Origin is empty
\* is rejected when the list holds neither "*" nor the empty string, and
\* accepted when it holds the empty string.
C26_OriginAcceptedIffListed ==
    upgrade_ok # NoResult
    => /\ upgrade_ok[1] <=> (Star \in OriginSet(allowedOrigins)
                             \/ request_origin \in OriginSet(allowedOrigins))
       /\ request_origin = EmptyString
          => (upgrade_ok[1] <=> (Star \in OriginSet(allowedOrigins)
                                 \/ EmptyString \in OriginSet(allowedOrigins)))

\* with ALLOWED_ORIGINS set to b,a the origin a was accepted
C26_Witness ==
    /\ allowedOrigins = <<<<"b">>, <<"a">>>>
    /\ request_origin = <<"a">>
    /\ upgrade_ok = <<TRUE>>

\* the trace of these calls ended, without an error, at its last call, which
\* got the given status
EndedAt(log, status) ==
    /\ Succeeded(Last(log))
    /\ Last(log).res.StatusCode = status

\* C27: a response is a redirect exactly when 300 <= status < 400: after 300
\* and after 399 the trace goes on to fetch the target, and after 299, 400,
\* 404 and 500 (as after every status outside the range) it ends at that hop
\* with no error: Track returns the url of the hop and its checkpoint last,
\* TrackChannel sends Finished.
C27_RedirectIffStatusIn300To399 ==
    /\ \A k \in 1..Len(track_log) :
         k < Len(track_log) => RedirectStatus(track_log[k])
    /\ \A k \in 1..Len(tc_log) :
         k < Len(tc_log) => RedirectStatus(tc_log[k])
    /\ (TrackReturned /\ Succeeded(track_log[1]))
       => LET status == track_log[1].res.StatusCode IN
          /\ status \in {299, 400, 404, 500}
             => /\ Len(track_log) = 1
                /\ track_ret = [response |-> [Url |-> input,
                                              Checkpoints |-> <<[Url |-> input, Status |-> status]>>],
                                err |-> nil]
          /\ status \in {300, 399} => Len(track_log) >= 2
    /\ (tc_pc \in {"return", "exited"} /\ Succeeded(tc_log[1]))
       => LET status == tc_log[1].res.StatusCode IN
          /\ status \in {299, 400, 404, 500}
             => /\ Len(tc_log) = 1
                /\ received = <<[Checkpoint |-> <<[Url |-> input, Status |-> status]>>,
                                 Err |-> nil, Finished |-> FALSE],
                                [Checkpoint |-> NilCheckpoint, Err |-> nil, Finished |-> TRUE]>>
          /\ status \in {300, 399} => Len(tc_log) >= 2

\* Track went on after a 399 and ended, with no error, at a second hop, while
\* TrackChannel has ended after the 399 too
C27_Witness ==
    /\ input = UrlC
    /\ TrackReturned
    /\ track_log[1].res.StatusCode = 399
    /\ Len(track_log) = 2
    /\ track_ret.err = nil
    /\ tc_pc = "exited"
    /\ Len(tc_log) = 2

\* the calls of a trace that went round a cycle: every call but the last is a
\* redirect from a url not fetched before, and the last, one more than there
\* are urls, got an answer from a url fetched before
WentRoundCycle(log) ==
    LET n == Len(log) IN
    /\ n >= 2
    /\ RefetchedAt(log, n)
    /\ DistinctUrls(SubSeq(log, 1, n - 1))
    /\ n = Cardinality({log[i].url : i \in 1..n}) + 1
    /\ \A i \in 1..(n - 1) : Succeeded(log[i]) /\ RedirectStatus(log[i])

C29_CheckpointsAppendOnly ==
    [][/\ \/ track_checkpoints' = track_checkpoints
          \/ /\ track_log' = Append(track_log, Last(track_log'))
             /\ track_checkpoints' =
                  Append(track_checkpoints, [Url |-> Last(track_log').url,
                                             Status |-> Last(track_log').res.StatusCode])
       /\ Len(track_checkpoints') >= Len(track_checkpoints)
       /\ SubSeq(track_checkpoints', 1, Len(track_checkpoints)) = track_checkpoints]_vars

\* Track is in its loop with the checkpoints of three fetches, in fetch order
C29_Witness ==
    /\ track_pc = "loop"
    /\ Len(track_checkpoints) = 3
    /\ \A i \in 1..3 : track_checkpoints[i].Url = track_log[i].url
    /\ track_checkpoints[1].Url # track_checkpoints[2].Url

\* the urls these calls got an answer from
AnsweredUrls(log) == {log[i].url : i \in {j \in 1..Len(log) : Succeeded(log[j])}}

\* the step reads a request on /ws: a new trace of TrackChannel begins
NewStreamTrace == ws_msgs' = Append(ws_msgs, Request)

FieldsSet(e) ==
    (IF e.Checkpoint # NilCheckpoint THEN 1 ELSE 0)
    + (IF e.Err # nil THEN 1 ELSE 0)
    + (IF e.Finished THEN 1 ELSE 0)

\* the goroutine is at a send
Sending == tc_pc \in {"sendCheckpoint", "sendErr", "sendFinished"}

\* C31: every TrackChannelResponse the goroutine sends, received already or
\* still held at the send, has exactly one of Checkpoint, Err and Finished
\* set.
C31_OneFieldSetPerEvent ==
    /\ \A i \in 1..Len(received) : FieldsSet(received[i]) = 1
    /\ Sending => FieldsSet(tc_pending) = 1

\* a checkpoint was received and the goroutine is at the send of the error of
\* the second fetch
C31_Witness ==
    /\ Len(received) = 1
    /\ received[1].Checkpoint # NilCheckpoint
    /\ tc_pc = "sendErr"
    /\ tc_pending.Err = "timeout"

\* the handler of /ws is at the receive from the channel of a trace
WsReceiving == entry = "ws" /\ recv_pc = "receiving"

\* C32: while the handler of /ws is at the receive from the channel of a
\* trace, the channel is not closed and the goroutine has not sent its
\* terminal event; the handler has never received the zero event of a closed
\* channel, and every Checkpoint frame it wrote carries the checkpoint of an
\* event received.
C32_NoReceiveFromClosedChannel ==
    /\ WsReceiving => (~ch_closed /\ tc_pc \notin {"return", "exited"})
    /\ (entry = "ws" /\ ws_msgs # <<>> /\ Last(ws_msgs) # Malformed)
       => /\ \A i \in 1..Len(received) : received[i] # NoEvent
          /\ Len(Last(ws_frames)) = Len(received)
          /\ \A i \in 1..Len(received) :
               Last(ws_frames)[i].typename = "Checkpoint"
               => received[i].Checkpoint # NilCheckpoint

\* the channel of a trace of two checkpoints is closed, and the handler, which
\* wrote three frames, is back at reading messages
C32_Witness ==
    /\ entry = "ws"
    /\ ch_closed
    /\ recv_pc = "read"
    /\ Len(ws_frames) = 1
    /\ Len(ws_frames[1]) = 3
    /\ ws_frames[1][3].typename = "Finish"

\* the frames written for one message are complete: they end with a terminal
\* frame, which is the only one
FramesComplete(frames) ==
    /\ frames # <<>>
    /\ \A i \in 1..Len(frames) : IsTerminalFrame(frames[i]) <=> i = Len(frames)

\* C33: the messages of one connection are handled one after another: a
\* message is read only when the handler is not receiving from a channel and
\* the frames of every message before are complete, and a step writes frames
\* only for the message read last, so the frames of earlier messages never
\* change.
C33_RequestsHandledOneAfterAnother ==
    [][entry = "ws" =>
        /\ Len(ws_frames') >= Len(ws_frames)
        /\ \A m \in 1..(Len(ws_frames) - 1) : ws_frames'[m] = ws_frames[m]
        /\ ws_msgs' # ws_msgs
           => /\ recv_pc = "read"
              /\ Len(ws_msgs') = Len(ws_msgs) + 1
              /\ \A m \in 1..Len(ws_frames) : FramesComplete(ws_frames[m])
              /\ \A m \in 1..Len(ws_frames) : ws_frames'[m] = ws_frames[m]]_vars

\* a second request has been read after the two frames of the first, and its
\* trace has written a frame
C33_Witness ==
    /\ entry = "ws"
    /\ ws_msgs = <<Request, Request>>
    /\ Len(ws_frames[1]) = 2
    /\ Len(ws_frames[2]) = 1
    /\ recv_pc = "receiving"

\* C34: the goroutine of TrackChannel eventually returns and closes the
\* channel, whatever the consumer and the context do.
C34_ProducerTerminates == <>(tc_pc = "exited" /\ ch_closed)

\* the number of calls of the fetcher that failed, which is 0 or 1 since a
\* failed call ends the trace
FailedCalls(log) == Cardinality({i \in 1..Len(log) : ~Succeeded(log[i])})

\* the checkpoints TrackChannel has sent or is sending
CheckpointsSent ==
    Len(StreamCheckpoints(received))
        + (IF tc_pc = "sendCheckpoint" /\ tc_pending.Checkpoint # NilCheckpoint THEN 1 ELSE 0)

\* C35: every round of the loop calls the fetcher once: at every moment the
\* calls made are the checkpoints recorded plus the one call that failed, so
\* a trace that ends successfully has made as many calls as it has
\* checkpoints, and a trace that ends with the error of a fetch has made one
\* call more than it has checkpoints; the same holds of TrackChannel and the
\* checkpoints it sent.
C35_OneFetchPerRound ==
    /\ Len(track_log) = Len(track_checkpoints) + FailedCalls(track_log)
    /\ FailedCalls(track_log) <= 1
    /\ (TrackReturned /\ track_ret.err = nil)
       => /\ FailedCalls(track_log) = 0
          /\ Len(track_log) = Len(track_ret.response.Checkpoints)
    /\ (TrackReturned /\ track_log # <<>> /\ ~Succeeded(Last(track_log)))
       => /\ track_ret.err = Last(track_log).res.err
          /\ Len(track_log) = Len(track_checkpoints) + 1
    /\ Len(tc_log) = CheckpointsSent + FailedCalls(tc_log)
    /\ FailedCalls(tc_log) <= 1
    /\ (received # <<>> /\ Last(received).Finished)
       => Len(tc_log) = Len(StreamCheckpoints(received))
    /\ (received # <<>> /\ Last(received).Err # nil /\ ~Succeeded(Last(tc_log)))
       => Len(tc_log) = Len(StreamCheckpoints(received)) + 1

\* Track returned the error of its third call with two checkpoints recorded,
\* and TrackChannel sent two checkpoints and the error of its third call
C35_Witness ==
    /\ TrackReturned
    /\ Len(track_log) = 3
    /\ ~Succeeded(track_log[3])
    /\ Len(track_checkpoints) = 2
    /\ Len(tc_log) = 3
    /\ Len(received) = 3
    /\ received[3].Err # nil

\* C36: when Track returns an error, the response it returns with it is the
\* zero TrackResponse, with an empty url and no checkpoints, however many
\* checkpoints the trace had recorded before the error; a response with
\* checkpoints comes with a nil error only.
C36_ErrorReturnsZeroResponse ==
    /\ TrackErrored
       => /\ track_ret.response = ZeroTrackResponse
          /\ track_ret.response.Url = EmptyString
          /\ track_ret.response.Checkpoints = <<>>
    /\ (TrackReturned /\ track_ret.response.Checkpoints # <<>>) => track_ret.err = nil

\* the third fetch of Track failed: two checkpoints were recorded and none is
\* returned
C36_Witness ==
    /\ TrackErrored
    /\ ~Succeeded(Last(track_log))
    /\ Len(track_checkpoints) = 2
    /\ track_ret.response = ZeroTrackResponse

\* the last call made on x was Add
LastOperationIsAdd(ops, x) ==
    \E i \in 1..Len(ops) :
        /\ ops[i] = <<"Add", x>>
        /\ \A j \in (i + 1)..Len(ops) : ops[j][2] # x

\* C37: after any calls of Add and Remove on a Set, Contains(x) holds exactly
\* when the last call on x was Add, and Len is the number of such x; a call of
\* Add on an element the set contains and a call of Remove on one it does not
\* contain leave the set as it was.
C37_SetFollowsLastOperation ==
    /\ [](/\ \A x \in Items : SetContains(set_m, x) <=> LastOperationIsAdd(set_ops, x)
          /\ SetLen(set_m) = Cardinality({x \in Items : LastOperationIsAdd(set_ops, x)}))
    /\ [][set_ops' # set_ops =>
            LET op == Last(set_ops') IN
            /\ set_ops' = Append(set_ops, op)
            /\ (op[1] = "Add" /\ SetContains(set_m, op[2])) => set_m' = set_m
            /\ (op[1] = "Remove" /\ ~SetContains(set_m, op[2])) => set_m' = set_m]_vars

\* item1 was added twice, item2 added and removed, and an absent element
\* removed: the set holds item1 alone
C37_Witness ==
    /\ set_ops = <<<<"Add", "item1">>, <<"Add", "item2">>, <<"Remove", "item2">>, <<"Add", "item1">>>>
    /\ SetContains(set_m, "item1")
    /\ ~SetContains(set_m, "item2")
    /\ SetLen(set_m) = 1

\* s begins with http:// or with https://
BeginsWithHttp(s) == HasPrefix(s, HttpPrefix) \/ HasPrefix(s, HttpsPrefix)

\* C38: IsUrl(s) is true exactly when s begins with http:// or https://: the
\* empty string, a host without a scheme, and other schemes such as ftp:// and
\* htttp:// are rejected, and so is an accepted prefix that is not at the
\* start of the string.
C38_IsUrlIffHttpPrefix ==
    is_url # NoResult
    => /\ is_url[1] <=> BeginsWithHttp(input)
       /\ is_url[1] <=> IsUrl(input)
       /\ input = EmptyString => ~is_url[1]
       /\ (\E i \in 1..Len(input) : input[i] \notin {"h", "t", "p", "s", ":", "/"}
                                      /\ \A j \in 1..i : input[j] # ":")
          => ~is_url[1]

\* IsUrl rejected htttp://a or ftp://a, or accepted https://a:8
C38_Witness ==
    \/ is_url = <<FALSE>> /\ input = <<"h","t","t","t","p",":","/","/","a">>
    \/ is_url = <<FALSE>> /\ input = <<"f","t","p",":","/","/","a">>
    \/ is_url = <<TRUE>> /\ input = HttpsPrefix \o <<"a",":","8">>

====
